---- MODULE Spec2Model ----
(***************************************************************************)
(* Verification model of the sify observability SDK's instrumentation      *)
(* layer: the trace-rule evaluator (utils/trace_decision.py), the function *)
(* wrapper (auto/function_instrumentor.py) with the collector facade       *)
(* (collector.py), and the class wrapper (auto/class_instrumentor.py).     *)
(*                                                                         *)
(* One wrapped invocation is modelled as a "run": the ordered list of the  *)
(* calls it makes on the sink and on the original callable, the exception  *)
(* it ends with (or "none") and the value it returns.  Python's            *)
(* try/except/with structure is rebuilt from run combinators, so that      *)
(* which telemetry call is made, and which exception reaches the caller,   *)
(* follows the control flow of the source.                                 *)
(***************************************************************************)
EXTENDS Integers, Sequences, FiniteSets, TLC

VARIABLES
    fobj,        \* heap of callables: originals first, then wrappers
    wrappedMap,  \* FunctionInstrumentor._wrapped: callable id -> wrapper id (0: no entry)
    lastWrap,    \* the last instrumentation request on a function and its result
    lastCall,    \* the last call through a callable of fobj
    clsMarked,   \* per class: the _telemetry_instrumented attribute
    clsMethods,  \* per class and method: the wrapper layers around the original
    instTele,    \* per instance: the _telemetry attribute
    nInstr,      \* number of instrument_class requests made so far
    lastMCall,   \* the last method call on an instance
    ruleIn,      \* (telemetry, ctx) handed to should_trace
    ruleOut,     \* the decision should_trace returned for ruleIn
    sifyTele,    \* SifySDKInstrumentor.telemetry
    sifyScopes,  \* one entry per SifySDKInstrumentor.instrument_class call: its locals
    sifyMethods, \* per method of the SDK class: the wrapper layers around the original
    lastSCall,   \* the last method call on the SDK class
    decTele,     \* the telemetry object create_decorators was given
    dobj,        \* heap of callables of the decorator world: the original, then decorated ones
    lastDCall,    \* the last call through a callable of dobj
    libStatus,   \* LibraryInstrumentor._status
    dbStatus,    \* DatabaseInstrumentor._status
    appFramework, \* FrameworkInstrumentor._instrumented_apps ("none": no entry)
    lastUn,       \* the last adapter request and what the caller got
    logIn,       \* the arguments of the last LogsManager.log call and the logger's state
    logOut,       \* the records that call emitted, in order, and the caller's mapping after it
    setupIn,     \* the target and arguments of the last instrumentation request
    setupOut,     \* what that request returned or raised, and the target's state after it
    asyncTele,   \* the sink of the SifySDKInstrumentor whose async wrapper the tasks call
    asyncTasks,  \* each task's position in async_wrapper and its local variables
    asyncClock,  \* time.perf_counter()
    asyncLog,     \* every sink call and log made so far: the task that made it and its rank in that task
    instruments, \* MetricsManager._instruments: name -> cached instrument
    metCreated,  \* number of real instruments the meter created so far
    lastGet,      \* the last _get_or_create / _create_observable call and what it returned
    hMarked,     \* per class: _telemetry_instrumented in the class's own __dict__
    hDict,       \* per class and method name: the function in the class's own __dict__
    hThreads,    \* each thread's position in instrument_class and its local variables
    hPassed,     \* the classes handed to instrument_class so far
    nHReq,       \* number of instrument_class requests started so far
    lastHCall,    \* the last method call on an instance and the spans it opened
    spanUse,     \* the use of start_span in flight: generator position, spans yielded so far
    spanLog,     \* finished uses of start_span, with what the caller saw
    nSpanUse     \* uses of start_span begun

vars == <<fobj, wrappedMap, lastWrap, lastCall,
          clsMarked, clsMethods, instTele, nInstr, lastMCall,
          ruleIn, ruleOut,
          sifyTele, sifyScopes, sifyMethods, lastSCall,
          decTele, dobj, lastDCall,
          libStatus, dbStatus, appFramework, lastUn,
          logIn, logOut,
          setupIn, setupOut,
          asyncTele, asyncTasks, asyncClock, asyncLog,
          instruments, metCreated, lastGet,
          hMarked, hDict, hThreads, hPassed, nHReq, lastHCall,
          spanUse, spanLog, nSpanUse>>

fnVars   == <<fobj, wrappedMap, lastWrap, lastCall>>
clsVars  == <<clsMarked, clsMethods, instTele, nInstr, lastMCall>>
ruleVars == <<ruleIn, ruleOut>>
sifyVars == <<sifyTele, sifyScopes, sifyMethods, lastSCall>>
decVars == <<decTele, dobj, lastDCall>>
unVars == <<libStatus, dbStatus, appFramework, lastUn>>
logVars == <<logIn, logOut>>
setupVars == <<setupIn, setupOut>>
asyncVars == <<asyncTele, asyncTasks, asyncClock, asyncLog>>
metVars == <<instruments, metCreated, lastGet>>
hierVars == <<hMarked, hDict, hThreads, hPassed, nHReq, lastHCall>>
spanVars == <<spanUse, spanLog, nSpanUse>>

\* what each component leaves alone
NotFnVars   == <<clsVars, ruleVars, sifyVars, decVars, unVars, logVars, setupVars, asyncVars, metVars, hierVars, spanVars>>
NotClsVars  == <<fnVars, ruleVars, sifyVars, decVars, unVars, logVars, setupVars, asyncVars, metVars, hierVars, spanVars>>
NotRuleVars == <<fnVars, clsVars, sifyVars, decVars, unVars, logVars, setupVars, asyncVars, metVars, hierVars, spanVars>>
NotSifyVars == <<fnVars, clsVars, ruleVars, decVars, unVars, logVars, setupVars, asyncVars, metVars, hierVars, spanVars>>
NotDecVars == <<fnVars, clsVars, ruleVars, sifyVars, unVars, logVars, setupVars, asyncVars, metVars, hierVars, spanVars>>
NotUnVars == <<fnVars, clsVars, ruleVars, sifyVars, decVars, logVars, setupVars, asyncVars, metVars, hierVars, spanVars>>
NotLogVars == <<fnVars, clsVars, ruleVars, sifyVars, decVars, unVars, setupVars, asyncVars, metVars, hierVars, spanVars>>
NotSetupVars == <<fnVars, clsVars, ruleVars, sifyVars, decVars, unVars, logVars, asyncVars, metVars, hierVars, spanVars>>
NotAsyncVars == <<fnVars, clsVars, ruleVars, sifyVars, decVars, unVars, logVars, setupVars, metVars, hierVars, spanVars>>
NotMetVars == <<fnVars, clsVars, ruleVars, sifyVars, decVars, unVars, logVars, setupVars, asyncVars, hierVars, spanVars>>
NotHierVars == <<fnVars, clsVars, ruleVars, sifyVars, decVars, unVars, logVars, setupVars, asyncVars, metVars, spanVars>>
NotSpanVars == <<fnVars, clsVars, ruleVars, sifyVars, decVars, unVars, logVars, setupVars, asyncVars, metVars, hierVars>>

(***************************************************************************)
(* Bounds of the model.                                                    *)
(***************************************************************************)
MaxWrappers  == 2   \* wrapper objects created by instrumentation requests
MaxFaults    == 1   \* sink operations failing independently during one call
MaxPatterns  == 1   \* glob patterns in one include / exclude list
MaxInstr     == 2   \* instrument_class requests
MaxTasks     == 2   \* invocations of the async wrapper in flight at once
MaxClock     == 2   \* ticks of time.perf_counter() while they are in flight
MaxCreated   == 1   \* real instruments one MetricsManager's meter creates
MaxRequests  == 3   \* instrument_class requests the threads make on the class hierarchy
MaxUses      == 2   \* uses of `with start_span(...)` in one run

(***************************************************************************)
(* Names as character sequences, for glob matching.                        *)
(***************************************************************************)
Chars ==
    [ get_user    |-> <<"g","e","t","_","u","s","e","r">>,
      set_user    |-> <<"s","e","t","_","u","s","e","r">>,
      create_user |-> <<"c","r","e","a","t","e","_","u","s","e","r">>,
      boom        |-> <<"b","o","o","m">>,
      _helper     |-> <<"_","h","e","l","p","e","r">>,
      fetch       |-> <<"f","e","t","c","h">>,
      empty       |-> <<>> ]

Pat ==
    [ get_star    |-> <<"g","e","t","_","*">>,
      star_user   |-> <<"*","_","u","s","e","r">>,
      create_user |-> <<"c","r","e","a","t","e","_","u","s","e","r">>,
      q_oom       |-> <<"?","o","o","m">>,
      gs_et_star  |-> <<"[","g","s","]","e","t","_","*">>,
      not_g_star  |-> <<"[","!","g","]","*">> ]

PatternNames == DOMAIN Pat

\* index of the "]" closing a character class opened at p[1] = "[", or 0
\* (fnmatch.translate: a "]" right after "[" or "[!" is a member, not the end)
RECURSIVE ClassEnd(_, _)
ClassEnd(p, j) ==
    IF j > Len(p) THEN 0
    ELSE IF p[j] = "]" THEN j
    ELSE ClassEnd(p, j + 1)

ClassClose(p) ==
    LET first == IF Len(p) >= 2 /\ p[2] = "!" THEN 3 ELSE 2
    IN  ClassEnd(p, first + 1)

\* fnmatch.fnmatchcase over character sequences: "*" any run, "?" any one
\* character, "[seq]" / "[!seq]" one character in / not in seq, else literal.
RECURSIVE GlobMatch(_, _)
GlobMatch(p, s) ==
    IF p = <<>> THEN s = <<>>
    ELSE IF Head(p) = "*"
        THEN GlobMatch(Tail(p), s) \/ (s # <<>> /\ GlobMatch(p, Tail(s)))
    ELSE IF Head(p) = "?"
        THEN s # <<>> /\ GlobMatch(Tail(p), Tail(s))
    ELSE IF Head(p) = "[" /\ ClassClose(p) # 0
        THEN LET j       == ClassClose(p)
                 negated == p[2] = "!"
                 lo      == IF negated THEN 3 ELSE 2
                 members == { p[k] : k \in lo .. (j - 1) }
                 rest    == SubSeq(p, j + 1, Len(p))
             IN  /\ s # <<>>
                 /\ (Head(s) \in members) # negated
                 /\ GlobMatch(rest, Tail(s))
    ELSE s # <<>> /\ Head(s) = Head(p) /\ GlobMatch(Tail(p), Tail(s))

\* fnmatch.fnmatch(method, p) for a method name and a pattern name
fnmatch(method, p) == GlobMatch(Pat[p], Chars[method])

(***************************************************************************)
(* Rule evaluator: utils/trace_decision.py                                 *)
(*                                                                         *)
(* telemetry: [hasEnable, enable_traces, hasRules, ruled, lr]              *)
(*   trace_rules is absent (hasRules = FALSE) or the mapping that gives    *)
(*   every layer of `ruled` the layer rules lr; lr has the key             *)
(*   include_methods iff lr.hasInc (value lr.inc) and exclude_methods iff  *)
(*   lr.hasExc (value lr.exc).                                             *)
(* ctx: [layer, method]; layer "absent" / method "empty" stand for a ctx   *)
(*   without that key.                                                     *)
(***************************************************************************)
Layers == {"business", "framework", "library", "database"}

\* getattr(telemetry, "enable_traces", False)
EnableTraces(telemetry) == telemetry.hasEnable /\ telemetry.enable_traces

\* bool(trace_rules): the attribute exists and the mapping is not empty
RulesTruthy(telemetry) == telemetry.hasRules /\ telemetry.ruled # {}

\* trace_rules.get(layer) is a non-empty mapping
LayerRulesTruthy(telemetry, layer) ==
    /\ layer \in telemetry.ruled
    /\ (telemetry.lr.hasInc \/ telemetry.lr.hasExc)

\* layer_rules.get("include_methods")
include_methods(lr) == IF lr.hasInc THEN lr.inc ELSE {}

\* layer_rules.get("exclude_methods", [])
exclude_methods(lr) == IF lr.hasExc THEN lr.exc ELSE {}

should_trace_noexclude(telemetry, ctx) ==
    IF ~EnableTraces(telemetry) THEN FALSE
    ELSE IF ~RulesTruthy(telemetry) THEN TRUE
    ELSE IF ~LayerRulesTruthy(telemetry, ctx.layer) THEN TRUE
    ELSE IF ctx.layer = "business" THEN
        IF /\ include_methods(telemetry.lr) # {}
           /\ ~\E p \in include_methods(telemetry.lr) : fnmatch(ctx.method, p)
        THEN FALSE
        ELSE TRUE
    ELSE TRUE

should_trace_noglobal(telemetry, ctx) ==
    IF ~RulesTruthy(telemetry) THEN TRUE
    ELSE IF ~LayerRulesTruthy(telemetry, ctx.layer) THEN TRUE
    ELSE IF ctx.layer = "business" THEN
        IF /\ include_methods(telemetry.lr) # {}
           /\ ~\E p \in include_methods(telemetry.lr) : fnmatch(ctx.method, p)
        THEN FALSE
        ELSE IF \E p \in exclude_methods(telemetry.lr) : fnmatch(ctx.method, p)
        THEN FALSE
        ELSE TRUE
    ELSE TRUE

should_trace_strict(telemetry, ctx) ==
    IF ~EnableTraces(telemetry) THEN FALSE
    ELSE IF ~RulesTruthy(telemetry) THEN FALSE
    ELSE IF ~LayerRulesTruthy(telemetry, ctx.layer) THEN FALSE
    ELSE IF ctx.layer = "business" THEN
        IF /\ include_methods(telemetry.lr) # {}
           /\ ~\E p \in include_methods(telemetry.lr) : fnmatch(ctx.method, p)
        THEN FALSE
        ELSE IF \E p \in exclude_methods(telemetry.lr) : fnmatch(ctx.method, p)
        THEN FALSE
        ELSE TRUE
    ELSE TRUE

should_trace(telemetry, ctx) ==
    IF ~EnableTraces(telemetry) THEN FALSE
    ELSE IF ~RulesTruthy(telemetry) THEN TRUE
    ELSE IF ~LayerRulesTruthy(telemetry, ctx.layer) THEN TRUE
    ELSE IF ctx.layer = "business" THEN
        IF /\ include_methods(telemetry.lr) # {}
           /\ ~\E p \in include_methods(telemetry.lr) : fnmatch(ctx.method, p)
        THEN FALSE
        ELSE IF \E p \in exclude_methods(telemetry.lr) : fnmatch(ctx.method, p)
        THEN FALSE
        ELSE TRUE
    ELSE TRUE

\* the inputs the evaluator is exercised on
PatternLists == { ps \in SUBSET PatternNames : Cardinality(ps) <= MaxPatterns }

LayerRuleSets ==
    [ hasInc : BOOLEAN, inc : PatternLists, hasExc : BOOLEAN, exc : PatternLists ]

\* a key that is absent carries no list
LayerRuleOk(lr) == (~lr.hasInc => lr.inc = {}) /\ (~lr.hasExc => lr.exc = {})

RuledLayerSets == { {}, {"business"}, {"database"}, {"business", "library"} }

Telemetries ==
    { t \in [ hasEnable : BOOLEAN, enable_traces : BOOLEAN, hasRules : BOOLEAN,
              ruled : RuledLayerSets, lr : LayerRuleSets ] :
        /\ LayerRuleOk(t.lr)
        /\ (~t.hasEnable => ~t.enable_traces)
        /\ (~t.hasRules => t.ruled = {})
        /\ (t.ruled = {} => t.lr = [hasInc |-> FALSE, inc |-> {},
                                    hasExc |-> FALSE, exc |-> {}]) }

MethodNames == {"get_user", "set_user", "create_user", "boom", "empty"}

Contexts == [ layer : Layers \cup {"absent"}, method : MethodNames ]

(***************************************************************************)
(* Runs: what one invocation does, as seen by the sink and the caller.     *)
(*   ev  : the calls made, in order; an event's exc is the exception that  *)
(*         call raised, "none" when it completed                           *)
(*   exc : the exception the run ends with, "none" on normal completion    *)
(*   val : the value returned ("None" when there is none)                  *)
(***************************************************************************)
NoExc == "none"

\* exceptions deriving from Exception (what `except Exception` catches)
ExceptionClass == {"ValueError", "KeyError", "TelemetryError", "AttributeError",
                   "TimeoutError"}

\* what the application's callables raise
AppExceptions == {"ValueError", "KeyError"}

Values == {"v42", "v5"}

Ev(op, name, tag, exc) == [op |-> op, name |-> name, tag |-> tag, exc |-> exc]

Run(ev, exc, val) == [ev |-> ev, exc |-> exc, val |-> val]

Skip == Run(<<>>, NoExc, "None")

\* raise exc
Raise(exc) == Run(<<>>, exc, "None")

\* a; b  -- b runs only when a completed
Then(a, b) == IF a.exc # NoExc THEN a ELSE Run(a.ev \o b.ev, b.exc, b.val)

\* the run returns val when it completes
Returning(a, val) == IF a.exc = NoExc THEN Run(a.ev, NoExc, val) ELSE a

\* try: a  except Exception: (swallowed)
Guarded(a) == IF a.exc \in ExceptionClass THEN Run(a.ev, NoExc, "None") ELSE a

\* one call on the sink; it raises when its operation is among the faults
Telem(faults, op, name, tag) ==
    Run(<<Ev(op, name, tag, IF op \in faults THEN "TelemetryError" ELSE NoExc)>>,
        IF op \in faults THEN "TelemetryError" ELSE NoExc, "None")

\* the sink operations that may fail, and the two shapes of a degraded sink:
\* no traces component, and a traces component whose tracer is None
FaultNames == {"no_traces", "tracer_none", "span_start", "set_attribute",
               "counter", "histogram", "log", "record_exception"}

\* the metrics component raises on every call
MetricsDown == {"counter", "histogram"}

FaultSets ==
    { F \in SUBSET FaultNames : Cardinality(F) <= MaxFaults } \cup {MetricsDown}

\* `with tracer.start_as_current_span(name) as span: body`
\* tracer None: the attribute lookup raises before any sink call is made
WithSpan(faults, name, body) ==
    IF "tracer_none" \in faults THEN Raise("AttributeError")
    ELSE IF "span_start" \in faults THEN Telem(faults, "span_start", name, "")
    ELSE Run(<<Ev("span_start", name, "", NoExc)>> \o body.ev
                 \o <<Ev("span_end", name, "", NoExc)>>,
             body.exc, body.val)

\* the span variable was bound (the with statement was entered)
SpanBound(faults) == "tracer_none" \notin faults /\ "span_start" \notin faults

\* number of events of ev satisfying op / tag / completed
CountEv(ev, op) == Cardinality({ i \in DOMAIN ev : ev[i].op = op })

CountOk(ev, op, tag) ==
    Cardinality({ i \in DOMAIN ev :
                    ev[i].op = op /\ ev[i].tag = tag /\ ev[i].exc = NoExc })

\* events that are calls on the sink (everything but the original callable)
TelemetryEvents(ev) == { i \in DOMAIN ev : ev[i].op # "call" }

(***************************************************************************)
(* Function wrapping: auto/function_instrumentor.py                        *)
(***************************************************************************)
\* `tele and hasattr(tele, "traces") and hasattr(tele.traces, "tracer")`
FullTelemetryAlways(tele, faults) == TRUE

FullTelemetry(tele, faults) == tele = "S" /\ "no_traces" \notin faults

\* lines 50-70: the body of the with block, around the run `inner` of fn
FnBody(base, faults, inner) ==
    Returning(
        Then(Telem(faults, "set_attribute", <<"base">>, ""),
        Then(inner,
        Then(Telem(faults, "set_attribute", <<"duration_ms">>, ""),
        Then(Telem(faults, "counter", <<"telemetry.function", base, "calls">>, "success"),
        Then(Telem(faults, "histogram", <<"telemetry.function", base, "duration_ms">>, "success"),
             Telem(faults, "log", <<"telemetry.function", base>>, "info")))))),
        inner.val)

\* lines 72-98: the except Exception handler
FnHandler(base, faults, exc) ==
    Then(IF SpanBound(faults)
         THEN Then(Telem(faults, "record_exception", <<"telemetry.function", base>>, ""),
                   Telem(faults, "set_status", <<"telemetry.function", base>>, "ERROR"))
         ELSE Skip,
    Then(Telem(faults, "counter", <<"telemetry.function", base, "calls">>, "error"),
    Then(Telem(faults, "histogram", <<"telemetry.function", base, "duration_ms">>, "error"),
    Then(Telem(faults, "log", <<"telemetry.function", base>>, "error"),
         Raise(exc)))))

\* instrument_function.wrapper: one call of the wrapper whose _telemetry
\* attribute is tele, around the run `inner` of the wrapped callable
FnWrapper(base, tele, faults, inner) ==
    IF FullTelemetry(tele, faults) THEN
        LET body == WithSpan(faults, <<"telemetry.function", base>>,
                             FnBody(base, faults, inner))
        IN  IF body.exc \in ExceptionClass
            THEN LET h == FnHandler(base, faults, body.exc)
                 IN  Run(body.ev \o h.ev, h.exc, h.val)
            ELSE body
    ELSE inner

\* the original functions; callable i of the heap is FuncNames[i] for
\* i <= NumFuncs, and wrappers follow
FuncNames == <<"add", "div">>

NumFuncs == Len(FuncNames)

Funcs == 1 .. NumFuncs

\* getattr(wrapper, "_telemetry", None): "None" (no attribute, or None) or
\* the sink "S"
TeleAttrs == {"None", "S"}

\* what a callable does when invoked: returns val or raises exc
Behaviours ==
    { [exc |-> NoExc, val |-> v] : v \in Values }
        \cup { [exc |-> e, val |-> "None"] : e \in AppExceptions }

\* a call of callable c of heap h
RECURSIVE Invoke(_, _, _, _)
Invoke(h, c, beh, faults) ==
    IF h[c].orig = 0
    THEN Run(<<Ev("call", <<h[c].name>>, "", beh.exc)>>, beh.exc, beh.val)
    ELSE FnWrapper(h[c].name, h[c].tele, faults, Invoke(h, h[c].orig, beh, faults))

\* instrument_function(fn) + functools.wraps: a new wrapper object around c;
\* wraps copies fn.__name__ and fn.__dict__ (so the attributes of c)
NewWrapper(h, c) ==
    [orig |-> c, marker |-> h[c].marker, tele |-> h[c].tele, name |-> h[c].name]

\* FunctionInstrumentor.instrument(func, name, telemetry): the wrapper object
FIWrapper(h, c, telemetry) ==
    IF telemetry # "None"
    THEN [NewWrapper(h, c) EXCEPT !.tele = telemetry]
    ELSE NewWrapper(h, c)

\* collector.py line 220: getattr(func, "__wrapped_by_sdk__", False)
AlreadyWrappedNever(obj) == FALSE

AlreadyWrapped(obj) == obj.marker

NoWrap == [arg |-> 0, res |-> 0, prev |-> 0, created |-> FALSE, via |-> "none"]

NoCall == [target |-> 0, tele |-> "None", enable_traces |-> FALSE,
           beh |-> [exc |-> NoExc, val |-> "v5"], faults |-> {}, run |-> Skip]

FnInit ==
    /\ fobj = [ i \in Funcs |->
                  [orig |-> 0, marker |-> FALSE, tele |-> "None", name |-> FuncNames[i]] ]
    /\ wrappedMap = [ i \in 1 .. (NumFuncs + MaxWrappers) |-> 0 ]
    /\ lastWrap = NoWrap
    /\ lastCall = NoCall

\* TelemetryCollector.instrument_function(func)
CollectorInstrumentFunction(c) ==
    /\ c \in DOMAIN fobj
    /\ IF AlreadyWrapped(fobj[c])
       THEN /\ lastWrap' = [arg |-> c, res |-> c, prev |-> wrappedMap[c],
                            created |-> FALSE, via |-> "collector"]
            /\ UNCHANGED <<fobj, wrappedMap>>
       ELSE /\ Len(fobj) < NumFuncs + MaxWrappers
            /\ LET w == Len(fobj) + 1
               IN  /\ fobj' = Append(fobj, [FIWrapper(fobj, c, "S") EXCEPT !.marker = TRUE])
                   /\ wrappedMap' = [wrappedMap EXCEPT ![c] = w]
                   /\ lastWrap' = [arg |-> c, res |-> w, prev |-> wrappedMap[c],
                                   created |-> TRUE, via |-> "collector"]
    /\ UNCHANGED lastCall

\* FunctionInstrumentor.instrument(func, telemetry=...) used directly
FunctionInstrumentorInstrument(c, telemetry) ==
    /\ c \in DOMAIN fobj
    /\ Len(fobj) < NumFuncs + MaxWrappers
    /\ LET w == Len(fobj) + 1
       IN  /\ fobj' = Append(fobj, FIWrapper(fobj, c, telemetry))
           /\ wrappedMap' = [wrappedMap EXCEPT ![c] = w]
           /\ lastWrap' = [arg |-> c, res |-> w, prev |-> wrappedMap[c],
                           created |-> TRUE, via |-> "instrumentor"]
    /\ UNCHANGED lastCall

\* one call through callable c, while the sink's enable_traces is en (the
\* wrapper reads neither enable_traces nor trace_rules)
CallFunction(c, en, beh, faults) ==
    /\ c \in DOMAIN fobj
    /\ lastCall' = [target |-> c, tele |-> fobj[c].tele, enable_traces |-> en,
                    beh |-> beh, faults |-> faults,
                    run |-> Invoke(fobj, c, beh, faults)]
    /\ UNCHANGED <<fobj, wrappedMap, lastWrap>>

\* the caller is between two operations: no outcome is waiting to be taken
FnCallerReady == lastCall = NoCall

\* the wrapper returned or re-raised: the caller takes the outcome and goes on
FnReturn ==
    /\ lastCall # NoCall
    /\ lastCall' = NoCall
    /\ UNCHANGED <<fobj, wrappedMap, lastWrap>>

(***************************************************************************)
(* Class wrapping: auto/class_instrumentor.py                              *)
(*                                                                         *)
(* clsMethods[c][m] lists the wrapper layers around the original method,   *)
(* innermost first; a layer is the `telemetry` its closure captured.       *)
(* Receiving instances are ordinary (truthy) objects.  Attribute payloads  *)
(* of spans, metrics and logs are reduced to the outcome tag.              *)
(***************************************************************************)
Classes == {"Svc"}

Methods == {"get_user", "boom", "_helper"}

Instances == {"i1"}

\* method.__name__.startswith("_")
IsPrivate(m) == Chars[m] # <<>> /\ Chars[m][1] = "_"

\* the sink configurations (enable_traces, trace_rules) method calls run under:
\* tracing on or off; no rules, or business rules built from "get_*"
NoLayerRules == [hasInc |-> FALSE, inc |-> {}, hasExc |-> FALSE, exc |-> {}]

ClsLayerRules ==
    { [hasInc |-> i # {}, inc |-> i, hasExc |-> e # {}, exc |-> e] :
        i \in {{}, {"get_star"}}, e \in {{}, {"get_star"}} }

\* the shape of trace_rules when it is not the documented mapping of mappings:
\* "rules_list": trace_rules is a non-empty list; "layer_list": the entry of
\* the business layer is a non-empty list of patterns
RuleShapes == {"mapping", "rules_list", "layer_list"}

ClsConfigs ==
    { [hasEnable |-> TRUE, enable_traces |-> en, hasRules |-> FALSE,
       ruled |-> {}, lr |-> NoLayerRules, shape |-> "mapping"] : en \in BOOLEAN }
    \cup
    { [hasEnable |-> TRUE, enable_traces |-> en, hasRules |-> TRUE,
       ruled |-> {"business"}, lr |-> l, shape |-> "mapping"] :
        en \in BOOLEAN, l \in ClsLayerRules }
    \cup
    { [hasEnable |-> TRUE, enable_traces |-> en, hasRules |-> TRUE,
       ruled |-> {"business"},
       lr |-> [hasInc |-> FALSE, inc |-> {}, hasExc |-> TRUE, exc |-> {"get_star"}],
       shape |-> sh] : en \in BOOLEAN, sh \in RuleShapes \ {"mapping"} }

IdleConfig == [hasEnable |-> TRUE, enable_traces |-> FALSE, hasRules |-> FALSE,
               ruled |-> {}, lr |-> NoLayerRules, shape |-> "mapping"]

\* should_trace raises: trace_rules.get (line 20) on a list, or
\* layer_rules.get (line 26) on a list, both after the enable_traces test
RuleLookupRaises(cfg, ctx) ==
    /\ EnableTraces(cfg)
    /\ \/ cfg.shape = "rules_list"
       \/ cfg.shape = "layer_list" /\ ctx.layer = "business"

\* line 54: tele is None or not getattr(tele, "traces", None)
NoSink(tele, faults) == tele = "None" \/ "no_traces" \in faults

\* lines 88-153: the body of the with block, around the run `inner` of orig_fn
ClsBody(cls, m, faults, inner) ==
    Returning(
        Then(Telem(faults, "set_attribute", <<"base">>, ""),
        Then(inner,
        Then(Telem(faults, "set_attribute", <<"duration_ms">>, ""),
        Then(Guarded(Then(Telem(faults, "counter", <<cls, m, "calls">>, "success"),
                          Telem(faults, "histogram", <<cls, m, "duration_ms">>, "success"))),
             Guarded(Telem(faults, "log", <<cls, m>>, "info")))))),
        inner.val)

\* lines 155-204: the except Exception handler
ClsHandlerNoCounter(cls, m, faults, exc) ==
    Then(Guarded(IF SpanBound(faults)
                 THEN Then(Telem(faults, "record_exception", <<cls, m, "Span">>, ""),
                           Telem(faults, "set_status", <<cls, m, "Span">>, "ERROR"))
                 ELSE Skip),
    Then(Guarded(Telem(faults, "log", <<cls, m>>, "error")),
         Raise(exc)))

ClsHandler(cls, m, faults, exc) ==
    Then(Guarded(IF SpanBound(faults)
                 THEN Then(Telem(faults, "record_exception", <<cls, m, "Span">>, ""),
                           Telem(faults, "set_status", <<cls, m, "Span">>, "ERROR"))
                 ELSE Skip),
    Then(Guarded(Telem(faults, "counter", <<cls, m, "calls">>, "error")),
    Then(Guarded(Telem(faults, "log", <<cls, m>>, "error")),
         Raise(exc))))

TracedAlways(cfg, m) == TRUE

\* the decision of line 71 for method m of the business layer
Traced(cfg, m) == should_trace(cfg, [layer |-> "business", method |-> m])

\* instrument_class.wrapper, lines 54-204, once the sink tele is resolved
ClsWrapper(cls, m, tele, cfg, faults, inner) ==
    IF NoSink(tele, faults) THEN inner
    ELSE IF RuleLookupRaises(cfg, [layer |-> "business", method |-> m])
    THEN Raise("AttributeError")
    ELSE IF ~Traced(cfg, m) THEN inner
    ELSE LET body == WithSpan(faults, <<cls, m, "Span">>, ClsBody(cls, m, faults, inner))
         IN  IF body.exc \in ExceptionClass
             THEN LET h == ClsHandler(cls, m, faults, body.exc)
                  IN  Run(body.ev \o h.ev, h.exc, h.val)
             ELSE body

\* lines 47-50: the instance's _telemetry after the outermost wrapper ran
\* (a method with no wrapper layer leaves the instance alone).  `truthy` is
\* bool(instance): `if instance and not hasattr(instance, "_telemetry")`
BoundTele(attr, layers, truthy) ==
    IF layers # <<>> /\ truthy /\ attr = "absent" THEN layers[Len(layers)] ELSE attr

\* line 52: tele = instance._telemetry if instance else telemetry
ResolvedTele(attr, layers, truthy) ==
    IF layers # <<>> /\ ~truthy THEN layers[Len(layers)]
    ELSE BoundTele(attr, layers, truthy)

\* a call of method m through its k outermost-last wrapper layers
RECURSIVE MethodInvoke(_, _, _, _, _, _, _, _)
MethodInvoke(cls, m, k, tele, cfg, beh, faults, layers) ==
    IF k = 0
    THEN Run(<<Ev("call", <<cls, m>>, "", beh.exc)>>, beh.exc, beh.val)
    ELSE ClsWrapper(cls, m, tele, cfg, faults,
                    MethodInvoke(cls, m, k - 1, tele, cfg, beh, faults, layers))

\* line 27: getattr(cls, "_telemetry_instrumented", False)
AlreadyInstrumentedNever(marked) == FALSE

AlreadyInstrumented(marked) == marked

NoMCall == [inst |-> "i1", truthy |-> TRUE, had |-> "absent",
            cls |-> "Svc", m |-> "_helper", after |-> 0,
            layers |-> <<>>, tele |-> "absent", cfg |-> IdleConfig,
            beh |-> [exc |-> NoExc, val |-> "v5"], faults |-> {}, run |-> Skip]

ClsInit ==
    /\ clsMarked = [ c \in Classes |-> FALSE ]
    /\ clsMethods = [ c \in Classes |-> [ m \in Methods |-> <<>> ] ]
    /\ instTele \in [ Instances -> {"absent", "None", "T"} ]
    /\ nInstr = 0
    /\ lastMCall = NoMCall

\* instrument_class(cls, telemetry)
InstrumentClass(c, telemetry) ==
    /\ nInstr < MaxInstr
    /\ nInstr' = nInstr + 1
    /\ IF AlreadyInstrumented(clsMarked[c])
       THEN UNCHANGED <<clsMarked, clsMethods>>
       ELSE /\ clsMarked' = [clsMarked EXCEPT ![c] = TRUE]
            /\ clsMethods' = [clsMethods EXCEPT ![c] =
                   [ m \in Methods |->
                       IF IsPrivate(m) THEN clsMethods[c][m]
                       ELSE Append(clsMethods[c][m], telemetry) ] ]
    /\ UNCHANGED <<instTele, lastMCall>>

\* instance.m(...) on an instance of class c; truthy is bool(instance) at
\* the time of the call (a class may define __bool__ or __len__)
CallMethod(i, truthy, c, m, cfg, beh, faults) ==
    LET layers == clsMethods[c][m]
        tele   == ResolvedTele(instTele[i], layers, truthy)
    IN  /\ instTele' = [instTele EXCEPT ![i] = BoundTele(instTele[i], layers, truthy)]
        /\ lastMCall' = [inst |-> i, truthy |-> truthy, had |-> instTele[i],
                         cls |-> c, m |-> m, after |-> nInstr,
                         layers |-> layers, tele |-> tele, cfg |-> cfg,
                         beh |-> beh, faults |-> faults,
                         run |-> MethodInvoke(c, m, Len(layers), tele, cfg, beh, faults, layers)]
        /\ UNCHANGED <<clsMarked, clsMethods, nInstr>>

\* the caller is between two operations: no outcome is waiting to be taken
ClsCallerReady == lastMCall = NoMCall

\* the wrapper returned or re-raised: the caller takes the outcome and goes on
ClsReturn ==
    /\ lastMCall # NoMCall
    /\ lastMCall' = NoMCall
    /\ UNCHANGED <<clsMarked, clsMethods, instTele, nInstr>>

(***************************************************************************)
(* Rule evaluation on drawn inputs                                         *)
(***************************************************************************)
RuleInit ==
    /\ ruleIn \in [ telemetry : Telemetries, ctx : Contexts ]
    /\ ruleOut = [done |-> FALSE, traced |-> FALSE]

\* decision = should_trace(telemetry, ctx)
Evaluate ==
    /\ ~ruleOut.done
    /\ ruleOut' = [done |-> TRUE, traced |-> should_trace(ruleIn.telemetry, ruleIn.ctx)]
    /\ UNCHANGED ruleIn

(***************************************************************************)
(* SDK class wrapping: auto/sify_sdk_instrumentor.py                       *)
(*                                                                         *)
(* sifyMethods[m] lists the wrapper layers around the original method m,   *)
(* innermost first.  A layer keeps what its closure holds: mname (bound    *)
(* when the wrapper is built, as a default argument of make_wrapper) and   *)
(* scope, the instrument_class call whose local variables counter_name,    *)
(* error_counter and histogram_name the wrapper reads when it runs.        *)
(***************************************************************************)
SifyClass == "Client"

\* inspect.getmembers(cls, predicate=inspect.isfunction): sorted by name
SifyMembers == <<"_helper", "boom", "fetch", "get_user">>

SifyMethodNames == { SifyMembers[k] : k \in DOMAIN SifyMembers }

\* inspect.iscoroutinefunction(orig)
IsCoroutine(m) == m = "fetch"

Prefixes == {"", "sdk"}

\* lines 99-221: the loop over the members from position k on; st holds the
\* class's methods and the local variable base_name of this call (as the
\* method it was last computed from, "" before the first assignment)
RECURSIVE SifyLoop(_, _, _)
SifyLoop(k, scope, st) ==
    IF k > Len(SifyMembers) THEN st
    ELSE LET m == SifyMembers[k]
         IN  IF IsPrivate(m) THEN SifyLoop(k + 1, scope, st)
             ELSE IF st.methods[m] # <<>> THEN SifyLoop(k + 1, scope, st)
             ELSE SifyLoop(k + 1, scope,
                     [methods |-> [st.methods EXCEPT ![m] =
                                      Append(@, [mname |-> m, scope |-> scope])],
                      named   |-> m])

\* the wrapper's name for a metric: f"{base_prefix}{cls.__name__}.{method}.kind"
\* with the variables of the enclosing instrument_class call as they are when
\* the wrapper runs
SifyMetricName(scopes, layer, kind) ==
    <<scopes[layer.scope].prefix, SifyClass, scopes[layer.scope].named, kind>>

\* _get_tracer: "sink", "global", or "none" when the sink's tracer is None
SifyTracer(tele, faults) ==
    IF tele = "S" /\ "no_traces" \notin faults
    THEN IF "tracer_none" \in faults THEN "none" ELSE "sink"
    ELSE "global"

\* a span of the global OpenTelemetry tracer (not a call on the sink)
GlobalSpan(name, body) ==
    Run(<<Ev("span_start", name, "global", NoExc)>> \o body.ev
            \o <<Ev("span_end", name, "global", NoExc)>>,
        body.exc, body.val)

\* lines 180-189: the try block
SifyTry(mname, tele, faults, inner) ==
    LET name == <<SifyClass, mname>>
        body(f) == Returning(
                       Then(Telem(f, "set_attribute", <<"sify.class">>, ""),
                       Then(Telem(f, "set_attribute", <<"sify.method">>, ""),
                            inner)),
                       inner.val)
    IN  CASE SifyTracer(tele, faults) = "sink"   -> WithSpan(faults, name, body(faults))
          [] SifyTracer(tele, faults) = "global" -> GlobalSpan(name, body({}))
          [] OTHER                               -> inner

\* the with statement was entered, so `span` is bound in the handler
SifySpanBound(tele, faults) ==
    \/ SifyTracer(tele, faults) = "global"
    \/ SifyTracer(tele, faults) = "sink" /\ "span_start" \notin faults

\* lines 191-198: except Exception as exc
SifyHandler(mname, tele, faults, exc) ==
    LET f == IF SifyTracer(tele, faults) = "global" THEN {} ELSE faults
    IN  Then(IF SifySpanBound(tele, faults)
             THEN Guarded(Then(Telem(f, "record_exception", <<SifyClass, mname>>, ""),
                               Telem(f, "set_status", <<SifyClass, mname>>, "ERROR")))
             ELSE Skip,
             Raise(exc))

\* _increment_counter / _record_histogram: guarded, and only with a sink
SifyMetric(tele, faults, op, name, tag) ==
    IF tele = "S" THEN Guarded(Telem(faults, op, name, tag)) ELSE Skip

\* _emit_log: the sink's logs, else (no sink, or the call raised) the Python logger
SifyEmitLog(tele, faults, mname, tag) ==
    LET sdk      == Telem(faults, "log", <<SifyClass, mname>>, tag)
        fallback == Run(<<Ev("pylog", <<SifyClass, mname>>, tag, NoExc)>>, NoExc, "None")
    IN  IF tele = "S"
        THEN IF sdk.exc = NoExc THEN sdk ELSE Then(Guarded(sdk), fallback)
        ELSE fallback

\* lines 200-216: the finally block
SifyFinallyNoErrors(scopes, layer, tele, faults, success) ==
    LET tag == IF success THEN "success" ELSE "error"
    IN  Then(SifyMetric(tele, faults, "counter", SifyMetricName(scopes, layer, "calls"), tag),
        Then(SifyMetric(tele, faults, "histogram",
                        SifyMetricName(scopes, layer, "duration_ms"), tag),
             SifyEmitLog(tele, faults, layer.mname, tag)))

SifyFinally(scopes, layer, tele, faults, success) ==
    LET tag == IF success THEN "success" ELSE "error"
    IN  Then(SifyMetric(tele, faults, "counter", SifyMetricName(scopes, layer, "calls"), tag),
        Then(IF ~success
             THEN SifyMetric(tele, faults, "counter",
                             SifyMetricName(scopes, layer, "errors"), tag)
             ELSE Skip,
        Then(SifyMetric(tele, faults, "histogram",
                        SifyMetricName(scopes, layer, "duration_ms"), tag),
             SifyEmitLog(tele, faults, layer.mname, tag))))

\* lines 173-216: wrapper, around the run `inner` of orig
SifyWrapper(scopes, layer, tele, faults, inner) ==
    LET try     == SifyTry(layer.mname, tele, faults, inner)
        handled == IF try.exc \in ExceptionClass
                   THEN SifyHandler(layer.mname, tele, faults, try.exc)
                   ELSE Skip
        fin     == SifyFinally(scopes, layer, tele, faults, try.exc = NoExc)
    IN  Run(try.ev \o handled.ev \o fin.ev, try.exc, try.val)

\* lines 123-166: async_wrapper, awaited to completion: the same envelope
\* around the awaited coroutine
SifyAsyncWrapper(scopes, layer, tele, faults, inner) ==
    SifyWrapper(scopes, layer, tele, faults, inner)

\* a call of method m through its k outermost-last wrapper layers
RECURSIVE SifyInvoke(_, _, _, _, _, _, _)
SifyInvoke(m, k, layers, scopes, tele, beh, faults) ==
    IF k = 0
    THEN Run(<<Ev("call", <<SifyClass, m>>, "", beh.exc)>>, beh.exc, beh.val)
    ELSE LET inner == SifyInvoke(m, k - 1, layers, scopes, tele, beh, faults)
         IN  IF IsCoroutine(layers[k].mname)
             THEN SifyAsyncWrapper(scopes, layers[k], tele, faults, inner)
             ELSE SifyWrapper(scopes, layers[k], tele, faults, inner)

\* what an awaited coroutine may also do: be cancelled at its await point
\* (asyncio.CancelledError derives from BaseException, not from Exception) or
\* time out (asyncio.TimeoutError derives from Exception)
AsyncExceptions == {"CancelledError", "TimeoutError"}

SifyBehaviours(m) ==
    Behaviours \cup
        (IF IsCoroutine(m) THEN { [exc |-> e, val |-> "None"] : e \in AsyncExceptions } ELSE {})

NoSCall == [m |-> "_helper", layers |-> <<>>, beh |-> [exc |-> NoExc, val |-> "v5"],
            faults |-> {}, run |-> Skip]

\* SifySDKInstrumentor(telemetry) and the class before instrumentation
SifyInit ==
    /\ sifyTele \in {"None", "S"}
    /\ sifyScopes = <<>>
    /\ sifyMethods = [ m \in SifyMethodNames |-> <<>> ]
    /\ lastSCall = NoSCall

\* SifySDKInstrumentor.instrument_class(cls, prefix)
SifyInstrumentClass(prefix) ==
    /\ Len(sifyScopes) < MaxInstr
    /\ LET scope == Len(sifyScopes) + 1
           done  == SifyLoop(1, scope, [methods |-> sifyMethods, named |-> ""])
       IN  /\ sifyMethods' = done.methods
           /\ sifyScopes' = Append(sifyScopes, [prefix |-> prefix, named |-> done.named])
    /\ UNCHANGED <<sifyTele, lastSCall>>

\* Client().m(...)
SifyCallMethod(m, beh, faults) ==
    /\ lastSCall' = [m |-> m, layers |-> sifyMethods[m], beh |-> beh, faults |-> faults,
                     run |-> SifyInvoke(m, Len(sifyMethods[m]), sifyMethods[m],
                                        sifyScopes, sifyTele, beh, faults)]
    /\ UNCHANGED <<sifyTele, sifyScopes, sifyMethods>>

\* the caller is between two operations: no outcome is waiting to be taken
SifyCallerReady == lastSCall = NoSCall

\* the wrapper returned or re-raised: the caller takes the outcome and goes on
SifyReturn ==
    /\ lastSCall # NoSCall
    /\ lastSCall' = NoSCall
    /\ UNCHANGED <<sifyTele, sifyScopes, sifyMethods>>

(***************************************************************************)
(* Decorators: auto/decorators.py                                          *)
(*                                                                         *)
(* dobj[1] is the undecorated function; a decorated callable keeps the     *)
(* callable it decorates (orig) and the decorator that made it (kind).     *)
(* All decorators come from one create_decorators(telemetry) call.         *)
(***************************************************************************)
LogLevels == {"info", "warning", "error"}

DecKinds == {"trace", "metric_counter"} \cup LogLevels

DecFuncName == "add"

ExecBodyMetricsFirst(base, faults, inner) ==
    Returning(
        Then(Telem(faults, "set_attribute", <<"base">>, ""),
        Then(Telem(faults, "counter", <<"telemetry.decorator", base, "calls">>, "success"),
        Then(inner,
        Then(Telem(faults, "set_attribute", <<"duration_ms">>, ""),
        Then(Telem(faults, "histogram", <<"telemetry.decorator", base, "duration_ms">>, "success"),
             Telem(faults, "log", <<"telemetry.decorator", base>>, "info")))))),
        inner.val)

\* lines 28-51: the with block of _execute_with_telemetry
ExecBody(base, faults, inner) ==
    Returning(
        Then(Telem(faults, "set_attribute", <<"base">>, ""),
        Then(inner,
        Then(Telem(faults, "set_attribute", <<"duration_ms">>, ""),
        Then(Telem(faults, "counter", <<"telemetry.decorator", base, "calls">>, "success"),
        Then(Telem(faults, "histogram", <<"telemetry.decorator", base, "duration_ms">>, "success"),
             Telem(faults, "log", <<"telemetry.decorator", base>>, "info")))))),
        inner.val)

\* lines 53-80: the except Exception handler of _execute_with_telemetry
ExecHandler(base, faults, exc) ==
    Then(IF SpanBound(faults)
         THEN Then(Telem(faults, "record_exception", <<"telemetry.decorator", base>>, ""),
                   Telem(faults, "set_status", <<"telemetry.decorator", base>>, "ERROR"))
         ELSE Skip,
    Then(Telem(faults, "counter", <<"telemetry.decorator", base, "calls">>, "error"),
    Then(Telem(faults, "histogram", <<"telemetry.decorator", base, "duration_ms">>, "error"),
    Then(Telem(faults, "log", <<"telemetry.decorator", base>>, "error"),
         Raise(exc)))))

\* _execute_with_telemetry(callable_fn, tele, span_name, base_attrs); line 20
\* reads tele.traces.tracer before the try
_execute_with_telemetry(base, tele, faults, inner) ==
    IF tele = "None" \/ "no_traces" \in faults THEN Raise("AttributeError")
    ELSE LET body == WithSpan(faults, <<"telemetry.decorator", base>>,
                              ExecBody(base, faults, inner))
         IN  IF body.exc \in ExceptionClass
             THEN LET h == ExecHandler(base, faults, body.exc)
                  IN  Run(body.ev \o h.ev, h.exc, h.val)
             ELSE body

\* metric_counter(name).dec(fn).wrapper, lines 119-121
metric_counter(tele, faults, inner) ==
    IF tele = "None" THEN Raise("AttributeError")
    ELSE Then(Telem(faults, "counter", <<"user.counter">>, ""), inner)

\* _log(level, message).dec(fn).wrapper, lines 132-134
_log_after(tele, faults, level, inner) ==
    IF tele = "None" THEN Raise("AttributeError")
    ELSE LET t == Telem(faults, "log", <<"user.message">>, level)
         IN  IF inner.exc # NoExc THEN inner
             ELSE Run(inner.ev \o t.ev, t.exc, IF t.exc = NoExc THEN inner.val ELSE "None")

_log(tele, faults, level, inner) ==
    IF tele = "None" THEN Raise("AttributeError")
    ELSE Then(Telem(faults, "log", <<"user.message">>, level), inner)

\* one call of a callable made by decorator `kind`, around the run `inner`
DecWrapper(kind, tele, faults, inner) ==
    CASE kind = "trace"          -> _execute_with_telemetry(DecFuncName, tele, faults, inner)
      [] kind = "metric_counter" -> metric_counter(tele, faults, inner)
      [] OTHER                   -> _log(tele, faults, kind, inner)

\* a call of callable c of heap h
RECURSIVE DecInvoke(_, _, _, _, _)
DecInvoke(h, c, tele, beh, faults) ==
    IF h[c].orig = 0
    THEN Run(<<Ev("call", <<DecFuncName>>, "", beh.exc)>>, beh.exc, beh.val)
    ELSE DecWrapper(h[c].kind, tele, faults, DecInvoke(h, h[c].orig, tele, beh, faults))

NoDCall == [target |-> 0, beh |-> [exc |-> NoExc, val |-> "v5"], faults |-> {}, run |-> Skip]

\* create_decorators(telemetry), and the function before any decoration
DecInit ==
    /\ decTele \in {"None", "S"}
    /\ dobj = <<[orig |-> 0, kind |-> "none"]>>
    /\ lastDCall = NoDCall

\* decorators[kind](...)(c): a new callable around c
Decorate(c, kind) ==
    /\ c \in DOMAIN dobj
    /\ Len(dobj) < 1 + MaxWrappers
    /\ dobj' = Append(dobj, [orig |-> c, kind |-> kind])
    /\ UNCHANGED <<decTele, lastDCall>>

\* one call through callable c
CallDecorated(c, beh, faults) ==
    /\ c \in DOMAIN dobj
    /\ lastDCall' = [target |-> c, beh |-> beh, faults |-> faults,
                     run |-> DecInvoke(dobj, c, decTele, beh, faults)]
    /\ UNCHANGED <<decTele, dobj>>

\* the caller is between two operations: no outcome is waiting to be taken
DecCallerReady == lastDCall = NoDCall

\* the wrapper returned or raised: the caller takes the outcome and goes on
DecReturn ==
    /\ lastDCall # NoDCall
    /\ lastDCall' = NoDCall
    /\ UNCHANGED <<decTele, dobj>>

(***************************************************************************)
(* Adapters: auto/library_instrumentor.py, auto/database_instrumentor.py,  *)
(* auto/framework_instrumentor.py                                          *)
(*                                                                         *)
(* The third-party instrumentor behind a request is in one of the states   *)
(* of AdapterStates when the request is made.  A request is for one        *)
(* library (instrument([lib])) or one application, with the framework      *)
(* named by the caller.                                                    *)
(***************************************************************************)
\* "requests", "logging" and "redis" are keys of the _INSTRUMENTOR_MAPs,
\* "unknown" is not
Libraries == {"requests", "logging", "unknown"}

Databases == {"redis", "unknown"}

Mapped(lib) == lib # "unknown"

Apps == {"app1"}

Frameworks == {"flask", "fastapi", "django"}

\* the framework an instrument_app request ends up with: one named by the
\* caller or detected (lines 44-52), or "undetected" (line 54, line 93)
FrameworkArgs == Frameworks \cup {"undetected"}

\* ok: import, constructor and operation work; import_fails: __import__ or
\* getattr raises; ctor_fails: InstrumentorClass() raises; op_raises: the
\* instrument / uninstrument operation raises on every call; hook_raises:
\* instrument(log_hook=None) raises and instrument() works; no_op_attr: the
\* instance has no uninstrument attribute
AdapterStates == {"ok", "import_fails", "ctor_fails", "op_raises", "hook_raises",
                  "no_op_attr"}

\* the adapter states that matter for a library: an unmapped library is
\* turned down before any adapter is imported
AdaptersOf(lib) == IF Mapped(lib) THEN AdapterStates ELSE {"ok"}

\* what a request hands to its caller: a returned bool, or an exception
Returned(b) == [raised |-> FALSE, value |-> b]

Raised == [raised |-> TRUE, value |-> FALSE]

\* the result of a request on one target: what the caller gets, the status
\* recorded after it, and the outcome of each call made on the adapter's
\* instrument / uninstrument operation, in order
Outcome(out, status, calls) == [out |-> out, status |-> status, calls |-> calls]

\* lines 52-64: the special handling of "logging"; the handler of line 59
\* calls inst.instrument() again, outside any try
LoggingInstrument(status, adapter) ==
    IF adapter = "op_raises" THEN Outcome(Raised, status, <<"raised", "raised">>)
    ELSE IF adapter = "hook_raises"
         THEN Outcome(Returned(TRUE), "instrumented", <<"raised", "ok">>)
    ELSE Outcome(Returned(TRUE), "instrumented", <<"ok">>)

\* lines 67-74 / database lines 98-113: the generic instrumentation
GenericInstrument(status, adapter) ==
    IF adapter = "op_raises" THEN Outcome(Returned(FALSE), status, <<"raised">>)
    ELSE Outcome(Returned(TRUE), "instrumented", <<"ok">>)

\* line 30 dropped: the adapter is asked whatever the recorded status
AlreadyInstrumentedLibNever(status) == FALSE

\* line 30: self._status.get(lib) == "instrumented"
AlreadyInstrumentedLib(status) == status = "instrumented"

\* LibraryInstrumentor.instrument([lib]): the result for lib and the new status
LibraryInstrumentResult(status, lib, adapter) ==
    IF AlreadyInstrumentedLib(status) THEN Outcome(Returned(TRUE), status, <<>>)
    ELSE IF ~Mapped(lib) THEN Outcome(Returned(FALSE), status, <<>>)
    ELSE IF adapter = "import_fails" THEN Outcome(Returned(FALSE), status, <<>>)
    ELSE IF adapter = "ctor_fails" THEN Outcome(Raised, status, <<>>)
    ELSE IF lib = "logging" THEN LoggingInstrument(status, adapter)
    ELSE GenericInstrument(status, adapter)

\* the uninstrument operation, lines 95-103 / database lines 133-146
GenericUninstrument(status, adapter) ==
    IF adapter = "op_raises" THEN Outcome(Returned(FALSE), status, <<"raised">>)
    ELSE IF adapter = "no_op_attr" THEN Outcome(Returned(TRUE), "uninstrumented", <<>>)
    ELSE Outcome(Returned(TRUE), "uninstrumented", <<"ok">>)

\* LibraryInstrumentor.uninstrument(lib): line 93 constructs outside any try
LibraryUninstrumentResult(status, lib, adapter) ==
    IF ~Mapped(lib) THEN Outcome(Returned(FALSE), status, <<>>)
    ELSE IF adapter = "import_fails" THEN Outcome(Returned(FALSE), status, <<>>)
    ELSE IF adapter = "ctor_fails" THEN Outcome(Raised, status, <<>>)
    ELSE GenericUninstrument(status, adapter)

\* DatabaseInstrumentor.instrument([lib])
DatabaseInstrumentResult(status, lib, adapter) ==
    IF AlreadyInstrumentedLib(status) THEN Outcome(Returned(TRUE), status, <<>>)
    ELSE IF ~Mapped(lib) THEN Outcome(Returned(FALSE), status, <<>>)
    ELSE IF adapter = "import_fails" THEN Outcome(Returned(FALSE), status, <<>>)
    ELSE IF adapter = "ctor_fails" THEN Outcome(Raised, status, <<>>)
    ELSE GenericInstrument(status, adapter)

\* DatabaseInstrumentor.uninstrument(lib): the constructor is inside the try
DatabaseUninstrumentResult(status, lib, adapter) ==
    IF ~Mapped(lib) THEN Outcome(Returned(FALSE), status, <<>>)
    ELSE IF adapter \in {"import_fails", "ctor_fails"}
         THEN Outcome(Returned(FALSE), status, <<>>)
    ELSE GenericUninstrument(status, adapter)

\* FrameworkInstrumentor.instrument_app(app, framework): everything is inside
\* one try; _instrumented_apps is never read; the entry is written after the
\* adapter call succeeded
FrameworkInstrumentResult(entry, framework, adapter) ==
    IF framework = "undetected" THEN Outcome(Returned(FALSE), entry, <<>>)
    ELSE IF adapter \in {"import_fails", "ctor_fails"}
         THEN Outcome(Returned(FALSE), entry, <<>>)
    ELSE IF adapter = "op_raises" THEN Outcome(Returned(FALSE), entry, <<"raised">>)
    ELSE Outcome(Returned(TRUE), framework, <<"ok">>)

\* FrameworkInstrumentor.uninstrument_app(app)
FrameworkUninstrumentResult(entry, adapter) ==
    IF entry = "none" THEN Outcome(Returned(FALSE), entry, <<>>)
    ELSE IF entry = "flask"
         THEN IF adapter \in {"ok", "hook_raises"}
              THEN Outcome(Returned(TRUE), "none", <<"ok">>)
              ELSE Outcome(Returned(FALSE), entry,
                           IF adapter = "op_raises" THEN <<"raised">> ELSE <<>>)
    ELSE Outcome(Returned(FALSE), entry, <<>>)

NoUn == [op |-> "none", target |-> "none", adapter |-> "ok",
         before |-> "none", after |-> "none", out |-> Returned(FALSE),
         calls |-> <<>>, libs |-> <<>>, adapters |-> <<>>, results |-> {}]

UnInit ==
    /\ libStatus = [ l \in Libraries |-> "none" ]
    /\ dbStatus = [ l \in Databases |-> "none" ]
    /\ appFramework = [ a \in Apps |-> "none" ]
    /\ lastUn = NoUn

Request(op, target, adapter, before, res) ==
    [op |-> op, target |-> target, adapter |-> adapter,
     before |-> before, after |-> res.status, out |-> res.out, calls |-> res.calls,
     libs |-> <<>>, adapters |-> <<>>, results |-> {}]

LibraryInstrument(lib, adapter) ==
    LET res == LibraryInstrumentResult(libStatus[lib], lib, adapter)
    IN  /\ libStatus' = [libStatus EXCEPT ![lib] = res.status]
        /\ lastUn' = Request("library.instrument", lib, adapter, libStatus[lib], res)
        /\ UNCHANGED <<dbStatus, appFramework>>

\* the lists of libraries a caller passes: two distinct names
LibraryLists ==
    { libs \in Libraries \X Libraries : libs[1] # libs[2] }

\* lines 27-76, the for loop from its k-th iteration on: `results` holds the
\* pairs <<lib, bool>> written so far, `status` is self._status; an exception
\* of an iteration ends the loop and leaves instrument
RECURSIVE InstrumentLoop(_, _, _, _, _)
InstrumentLoop(status, libs, adapters, k, results) ==
    IF k > Len(libs)
    THEN [raised |-> FALSE, results |-> results, status |-> status]
    ELSE LET res == LibraryInstrumentResult(status[libs[k]], libs[k], adapters[k])
             now == [status EXCEPT ![libs[k]] = res.status]
         IN  IF res.out.raised
             THEN [raised |-> TRUE, results |-> results, status |-> now]
             ELSE InstrumentLoop(now, libs, adapters, k + 1,
                                 results \cup {<<libs[k], res.out.value>>})

\* LibraryInstrumentor.instrument(libs) with a list of two libraries
\* (TelemetryCollector.enable_auto_instrumentation, collector.py 183-187)
LibraryInstrumentMany(libs, adapters) ==
    LET res == InstrumentLoop(libStatus, libs, adapters, 1, {})
    IN  /\ libStatus' = res.status
        /\ lastUn' = [NoUn EXCEPT !.op = "library.instrument_many",
                                  !.libs = libs, !.adapters = adapters,
                                  !.results = res.results,
                                  !.out = IF res.raised THEN Raised ELSE Returned(TRUE)]
        /\ UNCHANGED <<dbStatus, appFramework>>

LibraryUninstrument(lib, adapter) ==
    LET res == LibraryUninstrumentResult(libStatus[lib], lib, adapter)
    IN  /\ libStatus' = [libStatus EXCEPT ![lib] = res.status]
        /\ lastUn' = Request("library.uninstrument", lib, adapter, libStatus[lib], res)
        /\ UNCHANGED <<dbStatus, appFramework>>

DatabaseInstrument(lib, adapter) ==
    LET res == DatabaseInstrumentResult(dbStatus[lib], lib, adapter)
    IN  /\ dbStatus' = [dbStatus EXCEPT ![lib] = res.status]
        /\ lastUn' = Request("database.instrument", lib, adapter, dbStatus[lib], res)
        /\ UNCHANGED <<libStatus, appFramework>>

DatabaseUninstrument(lib, adapter) ==
    LET res == DatabaseUninstrumentResult(dbStatus[lib], lib, adapter)
    IN  /\ dbStatus' = [dbStatus EXCEPT ![lib] = res.status]
        /\ lastUn' = Request("database.uninstrument", lib, adapter, dbStatus[lib], res)
        /\ UNCHANGED <<libStatus, appFramework>>

FrameworkInstrumentApp(app, framework, adapter) ==
    LET res == FrameworkInstrumentResult(appFramework[app], framework, adapter)
    IN  /\ appFramework' = [appFramework EXCEPT ![app] = res.status]
        /\ lastUn' = Request("framework.instrument_app", app, adapter, appFramework[app], res)
        /\ UNCHANGED <<libStatus, dbStatus>>

FrameworkUninstrumentApp(app, adapter) ==
    LET res == FrameworkUninstrumentResult(appFramework[app], adapter)
    IN  /\ appFramework' = [appFramework EXCEPT ![app] = res.status]
        /\ lastUn' = Request("framework.uninstrument_app", app, adapter, appFramework[app], res)
        /\ UNCHANGED <<libStatus, dbStatus>>

(***************************************************************************)
(* Logs: core/logs.py, utils/masking.py                                    *)
(*                                                                         *)
(* A record is the attribute mapping handed to a logger: key -> "v" (the   *)
(* caller's value) or "****" (the mask).                                   *)
(***************************************************************************)
\* attribute keys, as character sequences
KeyChars ==
    [ password     |-> <<"p","a","s","s","w","o","r","d">>,
      API_KEY      |-> <<"A","P","I","_","K","E","Y">>,
      db_token     |-> <<"d","b","_","t","o","k","e","n">>,
      user         |-> <<"u","s","e","r">>,
      service_name |-> <<"s","e","r","v","i","c","e",".","n","a","m","e">>,
      host_name    |-> <<"h","o","s","t",".","n","a","m","e">>,
      timestamp    |-> <<"t","i","m","e","s","t","a","m","p">> ]

\* the keys a caller passes
CallerKeys == {"password", "API_KEY", "db_token", "user"}

\* _extra_context(): service.name, host.name, timestamp
ContextKeys == {"service_name", "host_name", "timestamp"}

\* TelemetryConfig.sensitive_fields (config.py line 93)
SensitiveFields ==
    { <<"p","a","s","s","w","o","r","d">>,
      <<"a","p","i","_","k","e","y">>,
      <<"t","o","k","e","n">>,
      <<"s","e","c","r","e","t">> }

\* str.lower() on the letters the keys use
LowerChar(c) ==
    CASE c = "A" -> "a" [] c = "P" -> "p" [] c = "I" -> "i"
      [] c = "K" -> "k" [] c = "E" -> "e" [] c = "Y" -> "y"
      [] OTHER -> c

lower(k) == [ i \in DOMAIN k |-> LowerChar(k[i]) ]

\* `field in k`: field is a substring of k
Contains(field, k) ==
    \E i \in 1 .. (Len(k) - Len(field) + 1) : SubSeq(k, i, i + Len(field) - 1) = field

\* line 8: any(field in k.lower() for field in sensitive_fields)
IsSensitive(key, fields) == \E f \in fields : Contains(f, lower(KeyChars[key]))

\* mask_sensitive(attrs, sensitive_fields)
mask_sensitive(attrs, fields) ==
    IF DOMAIN attrs = {} \/ fields = {} THEN attrs
    ELSE [ k \in DOMAIN attrs |-> IF IsSensitive(k, fields) THEN "****" ELSE attrs[k] ]

\* lines 152-154: the caller's attributes updated with the context
WithContext(attrs) ==
    [ k \in DOMAIN attrs \cup ContextKeys |-> IF k \in DOMAIN attrs THEN attrs[k] ELSE "v" ]

\* the OpenTelemetry logger: None, emitting, or raising on emit
OtelLoggerStates == {"none", "ok", "emit_raises"}

\* otel_logger.emit(..., attributes=attributes), lines 174-179
OtelEmit(in, attributes) ==
    IF in.otel = "ok" THEN Run(<<[path |-> "otel", attrs |-> attributes]>>, NoExc, "None")
    ELSE Raise("TelemetryError")

\* lines 183-187: mask, then the Python logger
PythonEmit(in, attributes) ==
    Run(<<[path |-> "python", attrs |-> mask_sensitive(attributes, in.fields)]>>, NoExc, "None")

LogRunUnguarded(in) ==
    IF ~in.sampled THEN Skip
    ELSE LET attributes == WithContext(in.attrs)
         IN  IF in.otel # "none" THEN OtelEmit(in, attributes)
             ELSE PythonEmit(in, attributes)

\* LogsManager.log(level, message, attributes)
LogRun(in) ==
    IF ~in.sampled THEN Skip
    ELSE LET attributes == WithContext(in.attrs)
             emitted    == OtelEmit(in, attributes)
         IN  IF in.otel # "none" /\ emitted.exc = NoExc THEN emitted
             ELSE IF in.otel # "none"
                  THEN Then(Guarded(emitted), PythonEmit(in, attributes))
                  ELSE PythonEmit(in, attributes)

\* the mapping the caller passed, after the call: `attributes or {}` at line
\* 152 is the caller's own object unless that is empty or None, and lines
\* 153-154 update it in place
CallerMapping(in) ==
    IF ~in.sampled \/ DOMAIN in.attrs = {} THEN in.attrs
    ELSE WithContext(in.attrs)

\* the records one call emits, in order
LogRecords(in) == LogRun(in).ev

LogInputs ==
    [ attrs   : UNION { [ ks -> {"v"} ] : ks \in SUBSET CallerKeys },
      fields  : {SensitiveFields, {}},
      otel    : OtelLoggerStates,
      sampled : BOOLEAN ]

LogInit ==
    /\ logIn \in LogInputs
    /\ logOut = [done |-> FALSE, records |-> <<>>, exc |-> NoExc, caller |-> <<>>]

\* LogsManager.log(...)
Log ==
    /\ ~logOut.done
    /\ logOut' = [done |-> TRUE, records |-> LogRecords(logIn), exc |-> LogRun(logIn).exc,
                  caller |-> CallerMapping(logIn)]
    /\ UNCHANGED logIn

(***************************************************************************)
(* Instrumentation setup on targets that defeat it:                        *)
(* collector.py, auto/function_instrumentor.py, auto/class_instrumentor.py *)
(*                                                                         *)
(* A callable may lack __name__ (a functools.partial, an instance with     *)
(* __call__).  A class may refuse attribute assignment: "frozen" refuses   *)
(* every assignment (a built-in or extension type), "guarded" refuses the  *)
(* assignment of callables (a metaclass __setattr__).                      *)
(***************************************************************************)
SetupEntries == {"Collector.instrument_function", "instrument_function", "instrument_class"}

NameArgs == {"None", "custom"}

ClassKinds == {"plain", "frozen", "guarded"}

\* the result of a setup request: the exception raised or the object
\* returned, whether that object can be called, and the class after it
SetupResult(exc, val, usable, marker, replaced) ==
    [exc |-> exc, val |-> val, usable |-> usable, marker |-> marker, replaced |-> replaced]

\* instrument_function(fn, name): line 22 reads fn.__name__ when name is
\* falsy; the wrapper reads fn.__name__ on every call (line 36)
instrument_function(fn, name) ==
    IF name = "None" /\ ~fn.hasName
    THEN SetupResult("AttributeError", "None", FALSE, fn.marked, {})
    ELSE SetupResult(NoExc, "wrapper", fn.hasName, fn.marked, {})

\* Collector.instrument_function(func, name): line 217 reads func.__name__
collector_instrument_function(func, name) ==
    IF ~func.hasName THEN SetupResult("AttributeError", "None", FALSE, func.marked, {})
    ELSE IF func.marked THEN SetupResult(NoExc, "original", TRUE, TRUE, {})
    ELSE instrument_function(func, name)

\* the members the loop of instrument_class wraps
PublicMethods(cls) == { m \in cls.methods : ~IsPrivate(m) }

\* instrument_class(cls, telemetry, prefix): marker at line 29, setattr of
\* each wrapper at line 208, neither inside a try
instrument_class(cls) ==
    IF cls.marked THEN SetupResult(NoExc, "original", TRUE, TRUE, {})
    ELSE IF cls.kind = "frozen" THEN SetupResult("TypeError", "None", TRUE, FALSE, {})
    ELSE IF cls.kind = "guarded" /\ PublicMethods(cls) # {}
         THEN SetupResult("TypeError", "None", TRUE, TRUE, {})
    ELSE SetupResult(NoExc, "original", TRUE, TRUE, PublicMethods(cls))

FunctionRequests ==
    [ entry : {"Collector.instrument_function", "instrument_function"},
      kind : {"function"}, hasName : BOOLEAN, marked : BOOLEAN,
      name : NameArgs, methods : {{}} ]

ClassRequests ==
    [ entry : {"instrument_class"},
      kind : ClassKinds, hasName : {TRUE}, marked : BOOLEAN,
      name : {"None"}, methods : SUBSET Methods ]

NoSetup == [done |-> FALSE, res |-> SetupResult(NoExc, "None", FALSE, FALSE, {})]

SetupInit ==
    /\ setupIn \in FunctionRequests \cup ClassRequests
    /\ setupOut = NoSetup

\* Collector.instrument_function(func, name) / instrument_function(fn, name)
SetupFunction ==
    /\ ~setupOut.done
    /\ setupIn.entry # "instrument_class"
    /\ setupOut' = [done |-> TRUE,
                    res |-> IF setupIn.entry = "instrument_function"
                            THEN instrument_function(setupIn, setupIn.name)
                            ELSE collector_instrument_function(setupIn, setupIn.name)]
    /\ UNCHANGED setupIn

\* Collector.instrument_class(cls) -> ClassInstrumentor.instrument -> instrument_class
SetupClass ==
    /\ ~setupOut.done
    /\ setupIn.entry = "instrument_class"
    /\ setupOut' = [done |-> TRUE, res |-> instrument_class(setupIn)]
    /\ UNCHANGED setupIn

(***************************************************************************)
(* Concurrent invocations of async_wrapper:                                *)
(* auto/sify_sdk_instrumentor.py lines 123-166                             *)
(*                                                                         *)
(* Each task calls the wrapped coroutine method of one instrumented class  *)
(* on one event loop.  A task runs without interruption up to the inner    *)
(* `await orig(...)` (lines 124-134), is suspended there while other tasks *)
(* run and the clock advances, and when the awaited coroutine ends runs    *)
(* the rest of the wrapper (handler and finally block) without             *)
(* interruption.  start, span and success are locals of the invocation.    *)
(***************************************************************************)
Tasks == 1 .. MaxTasks

AsyncMethod == "fetch"

\* the class after one instrument_class(cls) call
AsyncClass ==
    SifyLoop(1, 1, [methods |-> [ m \in SifyMethodNames |-> <<>> ], named |-> ""])

AsyncScopes == <<[prefix |-> "", named |-> AsyncClass.named]>>

AsyncLayer == AsyncClass.methods[AsyncMethod][1]

\* `await orig(*args, **kwargs)` ending as beh says
Awaited(beh) == Run(<<Ev("call", <<SifyClass, AsyncMethod>>, "", beh.exc)>>, beh.exc, beh.val)

\* how the awaited coroutine may end: it returns, raises, or is cancelled
AsyncBehaviours ==
    { [exc |-> NoExc, val |-> "v42"], [exc |-> "ValueError", val |-> "None"],
      [exc |-> "CancelledError", val |-> "None"] }

\* one invocation of async_wrapper from entry to exit, for every sink and
\* every way the awaited coroutine may end
AsyncRuns ==
    [ tele \in {"None", "S"} |->
        [ beh \in AsyncBehaviours |->
            SifyAsyncWrapper(AsyncScopes, AsyncLayer, tele, {}, Awaited(beh)) ] ]

AsyncRun(tele, beh) == AsyncRuns[tele][beh]

\* the position of the await among the events of an invocation
AwaitAt(ev) == CHOOSE i \in DOMAIN ev : ev[i].op = "call"

\* lines 124-133: what the wrapper does before it suspends at the await
BeforeAwait(tele) ==
    LET ev == AsyncRun(tele, [exc |-> NoExc, val |-> "v42"]).ev
    IN  SubSeq(ev, 1, AwaitAt(ev) - 1)

\* lines 134-166: the end of the awaited coroutine and the rest of the wrapper
AfterAwait(tele, beh) ==
    LET ev == AsyncRun(tele, beh).ev
    IN  SubSeq(ev, AwaitAt(ev), Len(ev))

AsyncElapsedShared(tasks, t, clock) ==
    LET started == { tasks[u].start : u \in { v \in Tasks : tasks[v].pc # "idle" } }
    IN  clock - (CHOOSE x \in started : \A y \in started : y <= x)

\* line 151: elapsed = time.perf_counter() - start, start the invocation's local
AsyncElapsed(tasks, t, clock) == clock - tasks[t].start

\* the events of task t as they appear on the sink, the k-th of the task
\* ranked from + k
Tagged(t, from, evs, elapsed) ==
    { [task |-> t, k |-> from + i, ev |-> evs[i], elapsed |-> elapsed] : i \in DOMAIN evs }

IdleTask == [pc |-> "idle", start |-> 0, beh |-> [exc |-> NoExc, val |-> "v5"],
             exc |-> NoExc, val |-> "None", finish |-> 0]

AsyncInit ==
    /\ asyncTele \in {"None", "S"}
    /\ asyncTasks = [ t \in Tasks |-> IdleTask ]
    /\ asyncClock = 0
    /\ asyncLog = {}

\* task t calls Client().fetch(): the wrapper runs up to the await
AsyncCall(t) ==
    /\ asyncTasks[t].pc = "idle"
    /\ asyncTasks' = [asyncTasks EXCEPT ![t] = [@ EXCEPT !.pc = "awaiting", !.start = asyncClock]]
    /\ asyncLog' = asyncLog \cup Tagged(t, 0, BeforeAwait(asyncTele), 0)
    /\ UNCHANGED <<asyncTele, asyncClock>>

\* time passes while tasks are suspended
AsyncTick ==
    /\ \E t \in Tasks : asyncTasks[t].pc = "awaiting"
    /\ asyncClock < MaxClock
    /\ asyncClock' = asyncClock + 1
    /\ UNCHANGED <<asyncTele, asyncTasks, asyncLog>>

\* the coroutine awaited by task t ends as beh says: the wrapper resumes and
\* runs to its exit
AsyncResume(t, beh) ==
    /\ asyncTasks[t].pc = "awaiting"
    /\ LET run == AsyncRun(asyncTele, beh)
       IN  /\ asyncTasks' = [asyncTasks EXCEPT ![t] =
                  [@ EXCEPT !.pc = "done", !.beh = beh, !.exc = run.exc,
                            !.val = run.val, !.finish = asyncClock]]
           /\ asyncLog' = asyncLog \cup Tagged(t, Len(BeforeAwait(asyncTele)),
                                                AfterAwait(asyncTele, beh),
                                                AsyncElapsed(asyncTasks, t, asyncClock))
    /\ UNCHANGED <<asyncTele, asyncClock>>

(***************************************************************************)
(* Specifications: one per component, the other components at rest.        *)
(***************************************************************************)
FnIdle == fobj = <<>> /\ wrappedMap = <<>> /\ lastWrap = NoWrap /\ lastCall = NoCall

ClsIdle ==
    /\ clsMarked = [ c \in Classes |-> FALSE ]
    /\ clsMethods = [ c \in Classes |-> [ m \in Methods |-> <<>> ] ]
    /\ instTele = [ i \in Instances |-> "absent" ]
    /\ nInstr = 0
    /\ lastMCall = NoMCall

\* A specification exercises some components only; the objects of the
\* others are never constructed in it, and their variables stay empty.
RuleIdle == ruleIn = <<>> /\ ruleOut = <<>>

DecIdle == decTele = "None" /\ dobj = <<>> /\ lastDCall = NoDCall

UnIdle ==
    /\ libStatus = <<>>
    /\ dbStatus = <<>>
    /\ appFramework = <<>>
    /\ lastUn = <<>>

LogIdle == logIn = <<>> /\ logOut = <<>>

(***************************************************************************)
(* The instrument cache of MetricsManager: core/metrics.py                 *)
(*                                                                         *)
(* An instrument is a record: kind "real" (made by the meter, id = its     *)
(* rank among the instruments the meter made), "noop" (a _Noop* fallback)  *)
(* or "absent" (no cache entry for the name).                              *)
(***************************************************************************)
MetricNames == {"requests", "latency"}

\* the inst_type the public methods pass to _get_or_create
InstTypes == {"counter", "updown", "histogram"}

\* the inst_type the public methods pass to _create_observable
ObservableTypes == {"gauge", "counter", "updown"}

\* get_meter(name) (lines 65-72) and what the meter's create_* call does:
\* "none": no provider, get_meter returned None; "get_meter_raises": the
\* provider's get_meter raised, which get_meter answers with None; "ok";
\* "create_raises": the meter's create_* call raises
MeterStates == {"none", "get_meter_raises", "ok", "create_raises"}

NoInstrument == [kind |-> "absent", type |-> "none", id |-> 0]

NoopInstrument(inst_type) == [kind |-> "noop", type |-> inst_type, id |-> 0]

RealInstrument(inst_type, id) == [kind |-> "real", type |-> inst_type, id |-> id]

\* lines 76-77: isinstance(inst, (_NoopCounter, ..., _NoopObservable))
_is_noop(inst) == inst.kind = "noop"

\* line 87 without the early return: every call goes on to the meter
CachedRealNever(existing) == FALSE

\* line 87: `if existing and not self._is_noop(existing)`
CachedReal(existing) == existing.kind # "absent" /\ ~_is_noop(existing)

\* _get_or_create(name, inst_type, description, unit), lines 81-130:
\* the instrument returned, the cache entry and the creation count after it
GetOrCreate(existing, inst_type, meter, created) ==
    IF CachedReal(existing)
    THEN [result |-> existing, cached |-> existing, created |-> created]
    ELSE IF meter = "ok"
         THEN LET inst == RealInstrument(inst_type, created + 1)
              IN  [result |-> inst, cached |-> inst, created |-> created + 1]
         ELSE [result |-> NoopInstrument(inst_type),
               cached |-> NoopInstrument(inst_type), created |-> created]

\* lines 210-216: the observable instrument the meter makes for an inst_type
ObservableKind == [gauge |-> "observable_gauge", counter |-> "observable_counter",
                   updown |-> "observable_updown"]

\* _create_observable(name, callback, inst_type), lines 207-231: no look at
\* the cache; the entry of the name is overwritten
CreateObservableOutcome(inst_type, meter, created) ==
    IF meter = "ok"
    THEN LET inst == RealInstrument(ObservableKind[inst_type], created + 1)
         IN  [result |-> inst, cached |-> inst, created |-> created + 1]
    ELSE [result |-> NoopInstrument("observable"),
          cached |-> NoopInstrument("observable"), created |-> created]

\* the methods an instrument object has: Counter / UpDownCounter / their
\* no-op stand-ins have add, Histogram and its stand-in have record, an
\* observable instrument has neither
HasMethod(inst, method) ==
    \/ method = "add" /\ inst.type \in {"counter", "updown"}
    \/ method = "record" /\ inst.type = "histogram"

\* inst.add(value, attrs) / inst.record(value, attrs): a missing method is an
\* AttributeError, a real instrument may raise, a no-op returns None
InstrumentCall(inst, method, name, fails) ==
    IF ~HasMethod(inst, method) THEN Raise("AttributeError")
    ELSE IF inst.kind = "real" /\ fails
         THEN Run(<<Ev(method, name, inst.kind, "TelemetryError")>>, "TelemetryError", "None")
         ELSE Run(<<Ev(method, name, inst.kind, NoExc)>>, NoExc, "None")

\* lines 137-152 / 178-191 without the try block
RecordUnguarded(inst, method, name, fails) ==
    InstrumentCall(inst, method, name, fails)

\* lines 137-152 / 178-191: try: attrs = ...; inst.add / inst.record
\* except Exception: logger.debug(...)
Record(inst, method, name, fails) ==
    Guarded(InstrumentCall(inst, method, name, fails))

\* the public recording methods: their inst_type and the instrument method
RecordingMethods == {"increment_counter", "record_histogram"}

RecordType(via) == IF via = "increment_counter" THEN "counter" ELSE "histogram"

RecordCall(via) == IF via = "increment_counter" THEN "add" ELSE "record"

NoGet == [op |-> "none", via |-> "none", name |-> "requests", type |-> "counter",
          meter |-> "none", before |-> NoInstrument, result |-> NoInstrument,
          fails |-> FALSE, run |-> Skip]

MetInit ==
    /\ instruments = [ n \in MetricNames |-> NoInstrument ]
    /\ metCreated = 0
    /\ lastGet = NoGet

\* self._get_or_create(name, inst_type, ...) through a public method
MetGetOrCreate(name, inst_type, meter) ==
    LET out == GetOrCreate(instruments[name], inst_type, meter, metCreated)
    IN  /\ out.created <= MaxCreated
        /\ instruments' = [instruments EXCEPT ![name] = out.cached]
        /\ metCreated' = out.created
        /\ lastGet' = [op |-> "_get_or_create", via |-> "create", name |-> name,
                       type |-> inst_type, meter |-> meter,
                       before |-> instruments[name], result |-> out.result,
                       fails |-> FALSE, run |-> Returning(Skip, out.result.kind)]

\* increment_counter(name, value, attributes) (lines 134-152) and
\* record_histogram(name, value, attributes, unit) (lines 176-191)
MetRecord(via, name, meter, fails) ==
    LET out == GetOrCreate(instruments[name], RecordType(via), meter, metCreated)
    IN  /\ out.created <= MaxCreated
        /\ instruments' = [instruments EXCEPT ![name] = out.cached]
        /\ metCreated' = out.created
        /\ lastGet' = [op |-> "_get_or_create", via |-> via, name |-> name,
                       type |-> RecordType(via), meter |-> meter,
                       before |-> instruments[name], result |-> out.result,
                       fails |-> fails,
                       run |-> Record(out.result, RecordCall(via), name, fails)]

\* self._create_observable(name, callback, inst_type) through a public method
MetCreateObservable(name, inst_type, meter) ==
    LET out == CreateObservableOutcome(inst_type, meter, metCreated)
    IN  /\ out.created <= MaxCreated
        /\ instruments' = [instruments EXCEPT ![name] = out.cached]
        /\ metCreated' = out.created
        /\ lastGet' = [op |-> "_create_observable", via |-> "create", name |-> name,
                       type |-> inst_type, meter |-> meter,
                       before |-> instruments[name], result |-> out.result,
                       fails |-> FALSE, run |-> Returning(Skip, out.result.kind)]

MetIdle ==
    /\ instruments = <<>>
    /\ metCreated = 0
    /\ lastGet = <<>>

(***************************************************************************)
(* instrument_class on a class hierarchy, by threads that share no lock:   *)
(* auto/class_instrumentor.py lines 27-38 and 208                          *)
(*                                                                         *)
(* Sub derives from Base.  A function is a record: owner is the class      *)
(* whose body defined the original, layers the number of telemetry         *)
(* wrappers around it.  Attribute lookup on a class follows the MRO.       *)
(***************************************************************************)
HClasses == {"Base", "Sub"}

\* the MRO of each class, without object
Mro == [Base |-> <<"Base">>, Sub |-> <<"Sub", "Base">>]

\* inspect.getmembers returns the members sorted by name
HMembers == <<"_helper", "create_user", "get_user">>

HMethods == { HMembers[k] : k \in DOMAIN HMembers }

HThreads == {"A", "B"}

NoFunction == [owner |-> "none", layers |-> 0]

Function(owner) == [owner |-> owner, layers |-> 0]

\* make_wrapper(orig_fn): functools.wraps keeps __name__; one more layer
make_wrapper(orig_fn) == [owner |-> orig_fn.owner, layers |-> orig_fn.layers + 1]

\* the class bodies: Base defines get_user and _helper, Sub defines
\* create_user and, when `overrides`, its own get_user
ClassBodies(overrides) ==
    [ c \in HClasses |-> [ m \in HMethods |->
        IF c = "Base" /\ m \in {"get_user", "_helper"} THEN Function("Base")
        ELSE IF c = "Sub" /\ (m = "create_user" \/ (overrides /\ m = "get_user"))
             THEN Function("Sub")
        ELSE NoFunction ] ]

\* getattr(cls, name): the first class of the MRO whose __dict__ has it
RECURSIVE LookupFrom(_, _, _, _)
LookupFrom(dict, mro, k, m) ==
    IF k > Len(mro) THEN NoFunction
    ELSE IF dict[mro[k]][m] # NoFunction THEN dict[mro[k]][m]
    ELSE LookupFrom(dict, mro, k + 1, m)

Lookup(dict, cls, m) == LookupFrom(dict, Mro[cls], 1, m)

\* line 27: getattr(cls, "_telemetry_instrumented", False) follows the MRO
InheritedMarker(marked, cls) == \E k \in DOMAIN Mro[cls] : marked[Mro[cls][k]]

\* line 33: inspect.getmembers(cls, inspect.isfunction), in name order
Members(dict, cls) ==
    SelectSeq(HMembers, LAMBDA m : Lookup(dict, cls, m) # NoFunction)

IdleThread == [pc |-> "idle", cls |-> "Base", first |-> FALSE,
               members |-> [ m \in HMethods |-> NoFunction ], todo |-> <<>>]

NoHCall == [cls |-> "Base", m |-> "_helper", spans |-> 0]

HierInit ==
    /\ hMarked = [ c \in HClasses |-> FALSE ]
    /\ hDict \in { ClassBodies(o) : o \in BOOLEAN }
    /\ hThreads = [ t \in HThreads |-> IdleThread ]
    /\ hPassed = {}
    /\ nHReq = 0
    /\ lastHCall = NoHCall

\* thread t enters instrument_class(cls, telemetry)
HierStart(t, cls) ==
    /\ hThreads[t].pc \in {"idle", "done"}
    /\ nHReq < MaxRequests
    /\ nHReq' = nHReq + 1
    /\ hPassed' = hPassed \cup {cls}
    /\ hThreads' = [hThreads EXCEPT ![t] =
           [IdleThread EXCEPT !.pc = "check", !.cls = cls, !.first = cls \notin hPassed]]
    /\ UNCHANGED <<hMarked, hDict, lastHCall>>

\* lines 27-28: if getattr(cls, "_telemetry_instrumented", False): return cls
HierCheck(t) ==
    /\ hThreads[t].pc = "check"
    /\ hThreads' = [hThreads EXCEPT ![t].pc =
           IF InheritedMarker(hMarked, hThreads[t].cls) THEN "done" ELSE "mark"]
    /\ UNCHANGED <<hMarked, hDict, hPassed, nHReq, lastHCall>>

\* line 29: cls._telemetry_instrumented = True
HierMark(t) ==
    /\ hThreads[t].pc = "mark"
    /\ hMarked' = [hMarked EXCEPT ![hThreads[t].cls] = TRUE]
    /\ hThreads' = [hThreads EXCEPT ![t].pc = "members"]
    /\ UNCHANGED <<hDict, hPassed, nHReq, lastHCall>>

\* line 33: the list the for loop iterates over is built once
HierMembers(t) ==
    /\ hThreads[t].pc = "members"
    /\ hThreads' = [hThreads EXCEPT
           ![t].pc = "loop",
           ![t].members = [ m \in HMethods |-> Lookup(hDict, hThreads[t].cls, m) ],
           ![t].todo = Members(hDict, hThreads[t].cls)]
    /\ UNCHANGED <<hMarked, hDict, hPassed, nHReq, lastHCall>>

\* lines 33-38 and 208: one iteration of the loop, or its end (line 211)
HierWrap(t) ==
    /\ hThreads[t].pc = "loop"
    /\ IF hThreads[t].todo = <<>>
       THEN /\ hThreads' = [hThreads EXCEPT ![t].pc = "done"]
            /\ UNCHANGED hDict
       ELSE LET m == Head(hThreads[t].todo)
            IN  /\ hThreads' = [hThreads EXCEPT ![t].todo = Tail(hThreads[t].todo)]
                /\ IF IsPrivate(m) THEN UNCHANGED hDict
                   ELSE hDict' = [hDict EXCEPT ![hThreads[t].cls][m] =
                                      make_wrapper(hThreads[t].members[m])]
    /\ UNCHANGED <<hMarked, hPassed, nHReq, lastHCall>>

\* cls().m() with a sink that traces: every wrapper layer opens one span
HierCall(cls, m) ==
    /\ Lookup(hDict, cls, m) # NoFunction
    /\ lastHCall' = [cls |-> cls, m |-> m, spans |-> Lookup(hDict, cls, m).layers]
    /\ UNCHANGED <<hMarked, hDict, hThreads, hPassed, nHReq>>

HierIdle ==
    /\ hMarked = <<>>
    /\ hDict = <<>>
    /\ hThreads = <<>>
    /\ hPassed = {}
    /\ nHReq = 0
    /\ lastHCall = <<>>

(***************************************************************************)
(* TracesManager.start_span: core/traces.py lines 87-104.                  *)
(*                                                                         *)
(* start_span is a generator function under @contextmanager.  The          *)
(* generator is at one of its two yields (line 99 inside the tracer's own  *)
(* context manager and the try, line 104 after them) or finished.          *)
(* Resuming it gives one of: it yields a span, it stops, it raises.        *)
(***************************************************************************)
TracerStates == {"none", "ok", "start_raises"}

\* what the body of the with block ends with: CancelledError derives from
\* BaseException, the others from Exception
BodyExceptions == AppExceptions \cup {"CancelledError"}

Yields(at, span) == [kind |-> "yield", at |-> at, span |-> span, exc |-> NoExc]
Stops == [kind |-> "stop", at |-> "finished", span |-> "None", exc |-> NoExc]
Raises(exc) == [kind |-> "raise", at |-> "finished", span |-> "None", exc |-> exc]

\* tracer.start_as_current_span(...).__enter__ at line 98
start_as_current_span(tracer) ==
    IF tracer = "start_raises" THEN Raise("TelemetryError") ELSE Returning(Skip, "Span")

\* next(gen): from the start, lines 93-104; from a yield, the rest of the body
start_span_next(tracer, at) ==
    CASE at = "start" ->
           IF tracer # "none"
           THEN LET entered == start_as_current_span(tracer)
                IN  IF entered.exc = NoExc THEN Yields("line99", entered.val)
                    ELSE IF entered.exc \in ExceptionClass
                    THEN Yields("line104", "DummySpan")       \* except Exception: pass
                    ELSE Raises(entered.exc)
           ELSE Yields("line104", "DummySpan")
      [] at = "line99" -> Stops                                \* line 100: return
      [] at = "line104" -> Stops
      [] OTHER -> Stops

\* gen.throw(exc) at a yield: the tracer's context manager re-raises the
\* exception of its body, line 101 catches what derives from Exception and
\* control falls through to the yield of line 104
start_span_throw(at, exc) ==
    CASE at = "line99" ->
           IF exc \in ExceptionClass THEN Yields("line104", "DummySpan")
           ELSE Raises(exc)
      [] at = "line104" -> Raises(exc)
      [] OTHER -> Raises(exc)

\* @contextmanager (line 87): __exit__ of the generator's context manager.
\* A generator that yields again is an error of the context manager; a
\* generator that re-raises the thrown exception lets it propagate.
ContextExit(tracer, at, exc) ==
    LET r == IF exc = NoExc THEN start_span_next(tracer, at)
             ELSE start_span_throw(at, exc)
    IN  [ resumed |-> r,
          out     |-> CASE r.kind = "yield" -> "RuntimeError"
                        [] r.kind = "stop"  -> NoExc
                        [] OTHER            -> r.exc ]

IdleUse == [pc |-> "idle", tracer |-> "none", at |-> "start", yielded |-> <<>>]

\* `with self.start_span(name) as span:` reaches the body
SpanEnter(tracer) ==
    /\ spanUse.pc = "idle"
    /\ nSpanUse < MaxUses
    /\ LET r == start_span_next(tracer, "start")
       IN  spanUse' = [pc |-> "body", tracer |-> tracer, at |-> r.at,
                       yielded |-> <<r.span>>]
    /\ nSpanUse' = nSpanUse + 1
    /\ UNCHANGED spanLog

\* the body ends, normally (exc = "none") or with an exception, and the
\* with statement leaves the context manager
SpanExit(exc) ==
    /\ spanUse.pc = "body"
    /\ LET x == ContextExit(spanUse.tracer, spanUse.at, exc)
       IN  spanLog' = spanLog \cup
               {[tracer  |-> spanUse.tracer,
                 first   |-> spanUse.yielded[1],
                 body    |-> exc,
                 yielded |-> IF x.resumed.kind = "yield"
                             THEN Append(spanUse.yielded, x.resumed.span)
                             ELSE spanUse.yielded,
                 out     |-> x.out]}
    /\ spanUse' = IdleUse
    /\ UNCHANGED nSpanUse

SpanInit ==
    /\ spanUse = IdleUse
    /\ spanLog = {}
    /\ nSpanUse = 0

SpanIdle ==
    /\ spanUse = <<>>
    /\ spanLog = {}
    /\ nSpanUse = 0

SetupIdle == setupIn = <<>> /\ setupOut = <<>>

AsyncIdle ==
    /\ asyncTele = "None"
    /\ asyncTasks = <<>>
    /\ asyncClock = 0
    /\ asyncLog = {}

SifyIdle ==
    /\ sifyTele = "None"
    /\ sifyScopes = <<>>
    /\ sifyMethods = [ m \in SifyMethodNames |-> <<>> ]
    /\ lastSCall = NoSCall

Init == FnInit /\ ClsIdle /\ RuleIdle /\ SifyIdle /\ DecIdle /\ UnIdle /\ LogIdle /\ SetupIdle /\ AsyncIdle /\ MetIdle /\ HierIdle /\ SpanIdle

Next ==
    \/ /\ FnCallerReady
       /\ \E c \in DOMAIN fobj : CollectorInstrumentFunction(c)
       /\ UNCHANGED NotFnVars
    \/ /\ FnCallerReady
       /\ \E c \in DOMAIN fobj, t \in TeleAttrs : FunctionInstrumentorInstrument(c, t)
       /\ UNCHANGED NotFnVars
    \/ /\ FnCallerReady
       /\ \E c \in DOMAIN fobj, en \in BOOLEAN, beh \in Behaviours, F \in FaultSets :
             CallFunction(c, en, beh, F)
       /\ UNCHANGED NotFnVars
    \/ /\ FnReturn
       /\ UNCHANGED NotFnVars

Spec == Init /\ [][Next]_vars

InitCls == FnIdle /\ ClsInit /\ RuleIdle /\ SifyIdle /\ DecIdle /\ UnIdle /\ LogIdle /\ SetupIdle /\ AsyncIdle /\ MetIdle /\ HierIdle /\ SpanIdle

NextCls ==
    \/ /\ ClsCallerReady
       /\ \E c \in Classes, t \in {"None", "S"} : InstrumentClass(c, t)
       /\ UNCHANGED NotClsVars
    \/ /\ ClsCallerReady
       /\ \E i \in Instances, truthy \in BOOLEAN, c \in Classes, m \in Methods,
             cfg \in ClsConfigs, beh \in Behaviours, F \in FaultSets :
                CallMethod(i, truthy, c, m, cfg, beh, F)
       /\ UNCHANGED NotClsVars
    \/ /\ ClsReturn
       /\ UNCHANGED NotClsVars

SpecCls == InitCls /\ [][NextCls]_vars

InitRule == FnIdle /\ ClsIdle /\ RuleInit /\ SifyIdle /\ DecIdle /\ UnIdle /\ LogIdle /\ SetupIdle /\ AsyncIdle /\ MetIdle /\ HierIdle /\ SpanIdle

NextRule == Evaluate /\ UNCHANGED NotRuleVars

SpecRule == InitRule /\ [][NextRule]_vars

InitSify == FnIdle /\ ClsIdle /\ RuleIdle /\ SifyInit /\ DecIdle /\ UnIdle /\ LogIdle /\ SetupIdle /\ AsyncIdle /\ MetIdle /\ HierIdle /\ SpanIdle

NextSify ==
    \/ /\ SifyCallerReady
       /\ \E prefix \in Prefixes : SifyInstrumentClass(prefix)
       /\ UNCHANGED NotSifyVars
    \/ /\ SifyCallerReady
       /\ \E m \in SifyMethodNames, F \in FaultSets :
             \E beh \in SifyBehaviours(m) : SifyCallMethod(m, beh, F)
       /\ UNCHANGED NotSifyVars
    \/ /\ SifyReturn
       /\ UNCHANGED NotSifyVars

SpecSify == InitSify /\ [][NextSify]_vars

InitDec == FnIdle /\ ClsIdle /\ RuleIdle /\ SifyIdle /\ DecInit /\ UnIdle /\ LogIdle /\ SetupIdle /\ AsyncIdle /\ MetIdle /\ HierIdle /\ SpanIdle

NextDec ==
    \/ /\ DecCallerReady
       /\ \E c \in DOMAIN dobj, kind \in DecKinds : Decorate(c, kind)
       /\ UNCHANGED NotDecVars
    \/ /\ DecCallerReady
       /\ \E c \in DOMAIN dobj, beh \in Behaviours, F \in FaultSets : CallDecorated(c, beh, F)
       /\ UNCHANGED NotDecVars
    \/ /\ DecReturn
       /\ UNCHANGED NotDecVars

SpecDec == InitDec /\ [][NextDec]_vars

\* The four wrapping strategies side by side: the application starts in one
\* of them, and a strategy moves only while the other three are at rest.
InitWrap == Init \/ InitCls \/ InitSify \/ InitDec

NextWrap ==
    \/ ClsIdle /\ SifyIdle /\ DecIdle /\ Next
    \/ FnIdle /\ SifyIdle /\ DecIdle /\ NextCls
    \/ FnIdle /\ ClsIdle /\ DecIdle /\ NextSify
    \/ FnIdle /\ ClsIdle /\ SifyIdle /\ NextDec

SpecWrap == InitWrap /\ [][NextWrap]_vars

InitUn == FnIdle /\ ClsIdle /\ RuleIdle /\ SifyIdle /\ DecIdle /\ UnInit /\ LogIdle /\ SetupIdle /\ AsyncIdle /\ MetIdle /\ HierIdle /\ SpanIdle

NextUn ==
    \/ /\ \E l \in Libraries, a \in AdapterStates : LibraryInstrument(l, a)
       /\ UNCHANGED NotUnVars
    \/ /\ \E l \in Libraries, a \in AdapterStates : LibraryUninstrument(l, a)
       /\ UNCHANGED NotUnVars
    \/ /\ \E libs \in LibraryLists :
             \E a1 \in AdaptersOf(libs[1]), a2 \in AdaptersOf(libs[2]) :
                 LibraryInstrumentMany(libs, <<a1, a2>>)
       /\ UNCHANGED NotUnVars
    \/ /\ \E l \in Databases, a \in AdapterStates : DatabaseInstrument(l, a)
       /\ UNCHANGED NotUnVars
    \/ /\ \E l \in Databases, a \in AdapterStates : DatabaseUninstrument(l, a)
       /\ UNCHANGED NotUnVars
    \/ /\ \E app \in Apps, f \in FrameworkArgs, a \in AdapterStates :
             FrameworkInstrumentApp(app, f, a)
       /\ UNCHANGED NotUnVars
    \/ /\ \E app \in Apps, a \in AdapterStates : FrameworkUninstrumentApp(app, a)
       /\ UNCHANGED NotUnVars

SpecUn == InitUn /\ [][NextUn]_vars

InitLog == FnIdle /\ ClsIdle /\ RuleIdle /\ SifyIdle /\ DecIdle /\ UnIdle /\ LogInit /\ SetupIdle /\ AsyncIdle /\ MetIdle /\ HierIdle /\ SpanIdle

NextLog == Log /\ UNCHANGED NotLogVars

SpecLog == InitLog /\ [][NextLog]_vars

InitSetup == FnIdle /\ ClsIdle /\ RuleIdle /\ SifyIdle /\ DecIdle /\ UnIdle /\ LogIdle /\ SetupInit /\ AsyncIdle /\ MetIdle /\ HierIdle /\ SpanIdle

NextSetup ==
    \/ SetupFunction /\ UNCHANGED NotSetupVars
    \/ SetupClass /\ UNCHANGED NotSetupVars

SpecSetup == InitSetup /\ [][NextSetup]_vars

InitMet ==
    FnIdle /\ ClsIdle /\ RuleIdle /\ SifyIdle /\ DecIdle /\ UnIdle /\ LogIdle /\ SetupIdle /\ AsyncIdle /\ MetInit /\ HierIdle /\ SpanIdle

NextMet ==
    \/ /\ \E n \in MetricNames, ty \in InstTypes, meter \in MeterStates :
            MetGetOrCreate(n, ty, meter)
       /\ UNCHANGED NotMetVars
    \/ /\ \E n \in MetricNames, ty \in ObservableTypes, meter \in MeterStates :
            MetCreateObservable(n, ty, meter)
       /\ UNCHANGED NotMetVars
    \/ /\ \E via \in RecordingMethods, n \in MetricNames, meter \in MeterStates,
             fails \in BOOLEAN : MetRecord(via, n, meter, fails)
       /\ UNCHANGED NotMetVars

SpecMet == InitMet /\ [][NextMet]_vars

InitHier ==
    FnIdle /\ ClsIdle /\ RuleIdle /\ SifyIdle /\ DecIdle /\ UnIdle /\ LogIdle /\ SetupIdle /\ AsyncIdle /\ MetIdle /\ HierInit /\ SpanIdle

NextHier ==
    \/ /\ \E t \in HThreads, c \in HClasses : HierStart(t, c)
       /\ UNCHANGED NotHierVars
    \/ /\ \E t \in HThreads : HierCheck(t)
       /\ UNCHANGED NotHierVars
    \/ /\ \E t \in HThreads : HierMark(t)
       /\ UNCHANGED NotHierVars
    \/ /\ \E t \in HThreads : HierMembers(t)
       /\ UNCHANGED NotHierVars
    \/ /\ \E t \in HThreads : HierWrap(t)
       /\ UNCHANGED NotHierVars
    \/ /\ \E c \in HClasses, m \in HMethods : HierCall(c, m)
       /\ UNCHANGED NotHierVars

SpecHier == InitHier /\ [][NextHier]_vars

InitSpan ==
    FnIdle /\ ClsIdle /\ RuleIdle /\ SifyIdle /\ DecIdle /\ UnIdle /\ LogIdle /\ SetupIdle /\ AsyncIdle /\ MetIdle /\ HierIdle /\ SpanInit

NextSpan ==
    \/ /\ \E tracer \in TracerStates : SpanEnter(tracer)
       /\ UNCHANGED NotSpanVars
    \/ /\ \E exc \in BodyExceptions \cup {NoExc} : SpanExit(exc)
       /\ UNCHANGED NotSpanVars

SpecSpan == InitSpan /\ [][NextSpan]_vars

InitAsync ==
    FnIdle /\ ClsIdle /\ RuleIdle /\ SifyIdle /\ DecIdle /\ UnIdle /\ LogIdle /\ SetupIdle /\ AsyncInit /\ MetIdle /\ HierIdle /\ SpanIdle

NextAsync ==
    \/ /\ \E t \in Tasks : AsyncCall(t)
       /\ UNCHANGED NotAsyncVars
    \/ /\ AsyncTick
       /\ UNCHANGED NotAsyncVars
    \/ /\ \E t \in Tasks : \E beh \in AsyncBehaviours : AsyncResume(t, beh)
       /\ UNCHANGED NotAsyncVars

\* the awaited coroutine of task t ends, one way or another
AsyncEnds(t) == (\E beh \in AsyncBehaviours : AsyncResume(t, beh)) /\ UNCHANGED NotAsyncVars

\* the event loop resumes every task whose awaited coroutine can end
SpecAsync == InitAsync /\ [][NextAsync]_vars /\ \A t \in Tasks : WF_vars(AsyncEnds(t))

(***************************************************************************)
(* Properties                                                              *)
(***************************************************************************)
\* the last call went through a wrapper made by instrument_function
WrapperCalled == lastCall.target # 0 /\ fobj[lastCall.target].orig # 0

\* ... and that wrapper wraps an original function directly
DirectWrapperCalled ==
    /\ WrapperCalled
    /\ fobj[fobj[lastCall.target].orig].orig = 0

\* the caller got what the original callable did: same value, same exception
SameOutcome(run, beh) == run.exc = beh.exc /\ run.val = beh.val

CountNamed(ev, op, name, tag) ==
    Cardinality({ i \in DOMAIN ev :
                    /\ ev[i].op = op /\ ev[i].name = name
                    /\ ev[i].tag = tag /\ ev[i].exc = NoExc })

\* C1: for every function and every sink (also no sink), a call through the
\* wrapper made by instrument_function returns exactly the value the function
\* returned, or raises exactly the exception it raised, and the function is
\* invoked exactly once.
C1_WrapperTransparent ==
    WrapperCalled =>
        /\ SameOutcome(lastCall.run, lastCall.beh)
        /\ CountEv(lastCall.run.ev, "call") = 1

\* C2: when the sink's metrics component raises on every call, the wrapped
\* function's value still reaches the caller, and its own exception (not the
\* metrics exception) still reaches the caller.
C2_MetricsFailureSwallowed ==
    (WrapperCalled /\ lastCall.tele = "S" /\ lastCall.faults = MetricsDown) =>
        SameOutcome(lastCall.run, lastCall.beh)

C6_RewrapReturnsSameWrapper ==
    (lastWrap.via = "collector" /\ lastWrap.arg # 0 /\ fobj[lastWrap.arg].marker) =>
        /\ lastWrap.res = lastWrap.arg
        /\ ~lastWrap.created
        /\ (/\ lastCall.target = lastWrap.res
            /\ fobj[fobj[lastWrap.arg].orig].orig = 0
            /\ lastCall.tele = "S"
            /\ lastCall.faults = {})
           => /\ CountEv(lastCall.run.ev, "call") = 1
              /\ CountEv(lastCall.run.ev, "span_start") = 1
              /\ CountEv(lastCall.run.ev, "counter") = 1

C6_Witness ==
    /\ lastWrap.via = "collector"
    /\ lastWrap.arg # 0
    /\ fobj[lastWrap.arg].marker
    /\ fobj[fobj[lastWrap.arg].orig].orig = 0
    /\ lastWrap.res = lastWrap.arg
    /\ lastCall.target = lastWrap.res
    /\ lastCall.tele = "S"
    /\ lastCall.faults = {}
    /\ CountEv(lastCall.run.ev, "span_start") = 1

\* C7: a target function is wrapped at most once: a second
\* Collector.instrument_function request for an original function that the
\* collector already wrapped creates no new wrapper and returns the wrapper
\* of the first request.
C7_SecondRequestReturnsFirstWrapper ==
    (/\ lastWrap.via = "collector"
     /\ lastWrap.arg \in Funcs
     /\ lastWrap.prev # 0
     /\ fobj[lastWrap.prev].marker) =>
        /\ lastWrap.res = lastWrap.prev
        /\ ~lastWrap.created

\* the last method call went through a wrapper of instrument_class and was
\* traced on a sink
TracedMethodCall ==
    /\ lastMCall # NoMCall
    /\ lastMCall.layers # <<>>
    /\ lastMCall.tele \in {"S", "T"}
    /\ lastMCall.cfg.enable_traces
    /\ lastMCall.cfg.shape = "mapping"
    /\ Traced(lastMCall.cfg, lastMCall.m)

\* faults that stop the span from opening or the calls counter from counting
SpanOrCounterFaults ==
    {"no_traces", "tracer_none", "span_start", "set_attribute", "counter"}

\* C4: a public method of an instrumented class that raises e, called with a
\* sink on which the call is traced and whose span and counter operations
\* work: the caller observes e, and the counter "C.m.calls" is incremented
\* exactly once for the call, with outcome=error and never outcome=success.
C4_ErrorCountedOnce ==
    (/\ TracedMethodCall
     /\ lastMCall.faults \cap SpanOrCounterFaults = {}
     /\ lastMCall.beh.exc # NoExc) =>
        LET name == <<lastMCall.cls, lastMCall.m, "calls">>
            ev   == lastMCall.run.ev
        IN  /\ SameOutcome(lastMCall.run, lastMCall.beh)
            /\ CountNamed(ev, "counter", name, "error") = 1
            /\ CountNamed(ev, "counter", name, "success") = 0
            /\ CountEv(ev, "counter") = 1
            /\ CountEv(ev, "call") = 1

C4_Witness ==
    /\ TracedMethodCall
    /\ lastMCall.m = "boom"
    /\ lastMCall.tele = "S"
    /\ lastMCall.faults = {}
    /\ lastMCall.beh.exc = "KeyError"
    /\ lastMCall.run.exc = "KeyError"
    /\ CountNamed(lastMCall.run.ev, "counter", <<"Svc", "boom", "calls">>, "error") = 1

\* every public method of every class carries at most one wrapper layer, and
\* exactly one once the class is marked instrumented
WrappedOnce ==
    \A c \in Classes, m \in Methods :
        /\ Len(clsMethods[c][m]) <= 1
        /\ (clsMarked[c] /\ ~IsPrivate(m)) => Len(clsMethods[c][m]) = 1

\* a traced call on a healthy sink runs the original once, opens one span and
\* increments the calls counter once
SingleTelemetry ==
    (TracedMethodCall /\ lastMCall.faults = {}) =>
        /\ CountEv(lastMCall.run.ev, "call") = 1
        /\ CountEv(lastMCall.run.ev, "span_start") = 1
        /\ CountEv(lastMCall.run.ev, "counter") = 1

\* C5: however many times instrument_class is called on a class, every public
\* method wraps its original exactly once (one call: one invocation of the
\* original, one span, one calls-counter increment), and a request on a class
\* already instrumented leaves its methods as they are.
C5_InstrumentClassIdempotent ==
    /\ [](WrappedOnce /\ SingleTelemetry)
    /\ [][\A c \in Classes : clsMarked[c] => clsMethods'[c] = clsMethods[c]]_vars

C5_Witness ==
    /\ TracedMethodCall
    /\ lastMCall.after >= 2
    /\ lastMCall.faults = {}
    /\ CountEv(lastMCall.run.ev, "span_start") = 1
    /\ CountEv(lastMCall.run.ev, "call") = 1

\* the inputs of the evaluated decision
RuleT == ruleIn.telemetry

RuleEnabled == RuleT.hasEnable /\ RuleT.enable_traces

MatchesSome(method, ps) == \E p \in ps : fnmatch(method, p)

\* C8: with tracing enabled and rules configured for the business layer, a
\* business call is traced exactly when (the include list is absent or empty,
\* or the method matches an include glob) and the method matches no exclude
\* glob; with exclude_methods ["get_*"], get_user is not traced and
\* create_user is.
C8_ExcludeOverInclude ==
    (/\ ruleOut.done
     /\ RuleEnabled
     /\ RuleT.hasRules
     /\ "business" \in RuleT.ruled
     /\ ruleIn.ctx.layer = "business") =>
        LET lr     == RuleT.lr
            method == ruleIn.ctx.method
            inc    == IF lr.hasInc THEN lr.inc ELSE {}
            exc    == IF lr.hasExc THEN lr.exc ELSE {}
        IN  /\ ruleOut.traced <=>
                  /\ (inc = {} \/ MatchesSome(method, inc))
                  /\ ~MatchesSome(method, exc)
            /\ (~lr.hasInc /\ exc = {"get_star"} /\ method = "get_user")
                   => ~ruleOut.traced
            /\ (~lr.hasInc /\ exc = {"get_star"} /\ method = "create_user")
                   => ruleOut.traced

C8_Witness ==
    /\ ruleOut.done
    /\ RuleEnabled
    /\ RuleT.ruled = {"business"}
    /\ ruleIn.ctx = [layer |-> "business", method |-> "get_user"]
    /\ RuleT.lr = [hasInc |-> TRUE, inc |-> {"star_user"},
                   hasExc |-> TRUE, exc |-> {"get_star"}]
    /\ ~ruleOut.traced

\* C9: with tracing disabled on the sink (enable_traces false or absent),
\* should_trace returns false for every context and every rule set.
C9_DisabledNeverTraces ==
    (ruleOut.done /\ ~RuleEnabled) => ~ruleOut.traced

C9_Witness ==
    /\ ruleOut.done
    /\ ~RuleT.hasEnable
    /\ RuleT.ruled = {"business"}
    /\ RuleT.lr = [hasInc |-> TRUE, inc |-> {"get_star"},
                   hasExc |-> FALSE, exc |-> {}]
    /\ ruleIn.ctx = [layer |-> "business", method |-> "get_user"]
    /\ ~ruleOut.traced

\* C10: with tracing enabled, should_trace returns true for every method
\* whenever no rule set is configured or the rule set has no entry for the
\* context's layer.
C10_DefaultTraceEverything ==
    (/\ ruleOut.done
     /\ RuleEnabled
     /\ (~RuleT.hasRules \/ RuleT.ruled = {} \/ ruleIn.ctx.layer \notin RuleT.ruled)) =>
        ruleOut.traced

C10_Witness ==
    /\ ruleOut.done
    /\ RuleEnabled
    /\ RuleT.ruled = {"business"}
    /\ RuleT.lr = [hasInc |-> FALSE, inc |-> {},
                   hasExc |-> TRUE, exc |-> {"get_star"}]
    /\ ruleIn.ctx = [layer |-> "database", method |-> "get_user"]
    /\ ruleOut.traced

\* C11: for a traced call of a method wrapped by instrument_class, a span
\* operation that fails (starting the span raises, or span.set_attribute
\* raises) leaves the application alone: the original method runs exactly
\* once and the caller gets its value or its own exception.
C11_SpanFailureIsolated ==
    (/\ TracedMethodCall
     /\ lastMCall.faults \in {{"span_start"}, {"set_attribute"}}) =>
        /\ SameOutcome(lastMCall.run, lastMCall.beh)
        /\ CountEv(lastMCall.run.ev, "call") = 1

\* C12: a wrapper of instrument_function bound to a sink whose traces.tracer
\* is None still runs the original function exactly once and returns its
\* result.
C12_TracerNoneStillRuns ==
    (/\ DirectWrapperCalled
     /\ lastCall.tele = "S"
     /\ lastCall.faults = {"tracer_none"}
     /\ lastCall.beh.exc = NoExc) =>
        /\ SameOutcome(lastCall.run, lastCall.beh)
        /\ CountEv(lastCall.run.ev, "call") = 1

\* the last call went through a wrapper made by Collector.instrument_function
\* around an original function
CollectorWrapperCalled ==
    /\ DirectWrapperCalled
    /\ fobj[lastCall.target].marker

\* C15: with tracing disabled on the bound sink (enable_traces false), a
\* function wrapped through Collector.instrument_function invokes the original
\* directly and attempts no telemetry: no span, no metric, no log (stated for
\* a sink all of whose operations work).
C15_TracingDisabledNoTelemetry ==
    (/\ CollectorWrapperCalled
     /\ lastCall.tele = "S"
     /\ lastCall.faults = {}
     /\ ~lastCall.enable_traces) =>
        /\ SameOutcome(lastCall.run, lastCall.beh)
        /\ CountEv(lastCall.run.ev, "call") = 1
        /\ TelemetryEvents(lastCall.run.ev) = {}

\* the last call on the SDK class went through a wrapper of SifySDKInstrumentor
SifyWrapperCalled == lastSCall # NoSCall /\ lastSCall.layers # <<>>

\* the names under which the last call reported counters and histograms
SifyReportedNames ==
    { lastSCall.run.ev[i].name :
        i \in { j \in DOMAIN lastSCall.run.ev :
                  lastSCall.run.ev[j].op \in {"counter", "histogram"} } }

\* C13: a call of method m wrapped by SifySDKInstrumentor.instrument_class
\* reports its metrics under names derived from m itself ("[prefix.]C.m.calls",
\* "[prefix.]C.m.duration_ms", "[prefix.]C.m.errors"), never under another
\* method's name.
C13_MetricsNamedAfterMethod ==
    (SifyWrapperCalled /\ sifyTele = "S") =>
        \A n \in SifyReportedNames :
            /\ n[2] = SifyClass
            /\ n[3] = lastSCall.m
            /\ n[4] \in {"calls", "duration_ms", "errors"}

\* number of metric events of one kind (the last component of the name)
CountKind(ev, op, kind, tag) ==
    Cardinality({ i \in DOMAIN ev :
                    ev[i].op = op /\ ev[i].name[Len(ev[i].name)] = kind /\ ev[i].tag = tag })

\* logs emitted: completed calls on the sink's logs or on the Python logger
CountLogs(ev, tag) ==
    Cardinality({ i \in DOMAIN ev :
                    ev[i].op \in {"log", "pylog"} /\ ev[i].tag = tag /\ ev[i].exc = NoExc })

\* C14: every call of a method wrapped by SifySDKInstrumentor (sync or async)
\* with a sink configured, in which the method ran and returned or raised,
\* increments the calls counter once, records the duration histogram once and
\* emits one log, all tagged success iff the method returned; the errors
\* counter is incremented once iff the method raised.
C14_EmittedExactlyOnce ==
    (/\ SifyWrapperCalled
     /\ sifyTele = "S"
     /\ CountEv(lastSCall.run.ev, "call") = 1) =>
        LET ev     == lastSCall.run.ev
            ok     == lastSCall.beh.exc = NoExc
            tag    == IF ok THEN "success" ELSE "error"
            other  == IF ok THEN "error" ELSE "success"
        IN  /\ SameOutcome(lastSCall.run, lastSCall.beh)
            /\ CountKind(ev, "counter", "calls", tag) = 1
            /\ CountKind(ev, "histogram", "duration_ms", tag) = 1
            /\ CountLogs(ev, tag) = 1
            /\ CountKind(ev, "counter", "errors", tag) = (IF ok THEN 0 ELSE 1)
            /\ CountKind(ev, "counter", "calls", other) = 0
            /\ CountKind(ev, "counter", "errors", other) = 0
            /\ CountKind(ev, "histogram", "duration_ms", other) = 0
            /\ CountLogs(ev, other) = 0
            /\ CountEv(ev, "counter") = (IF ok THEN 1 ELSE 2)
            /\ CountEv(ev, "histogram") = 1

C14_Witness ==
    /\ SifyWrapperCalled
    /\ sifyTele = "S"
    /\ lastSCall.m = "fetch"
    /\ lastSCall.beh.exc = "ValueError"
    /\ lastSCall.faults = {"log"}
    /\ lastSCall.run.exc = "ValueError"
    /\ CountKind(lastSCall.run.ev, "counter", "errors", "error") = 1
    /\ CountLogs(lastSCall.run.ev, "error") = 1

\* the last call went through a decorated callable
DecoratedCalled == lastDCall.target # 0 /\ dobj[lastDCall.target].orig # 0

\* ... made by one decorator applied to the undecorated function
DirectlyDecoratedCalled == DecoratedCalled /\ dobj[lastDCall.target].orig = 1

\* the kind of the decorator the last call went through
CalledKind == dobj[lastDCall.target].kind

C17_DecoratorNeverBreaks ==
    (/\ DirectlyDecoratedCalled
     /\ \/ decTele = "None"
        \/ CalledKind = "metric_counter" /\ lastDCall.faults = {"counter"}
        \/ CalledKind \in LogLevels /\ lastDCall.faults = {"log"}) =>
        /\ SameOutcome(lastDCall.run, lastDCall.beh)
        /\ CountEv(lastDCall.run.ev, "call") = 1

\* the last request asked an adapter to reverse an instrumentation
UninstrumentRequested ==
    lastUn.op \in {"library.uninstrument", "database.uninstrument",
                   "framework.uninstrument_app"}

\* C19: LibraryInstrumentor.uninstrument, DatabaseInstrumentor.uninstrument
\* and FrameworkInstrumentor.uninstrument_app never raise, whatever the
\* adapter does (import failure, constructor failure, reversal raising); they
\* return true only when the reversal did not fail, and on a false return the
\* recorded status of the target is unchanged.
C19_UninstrumentBestEffort ==
    UninstrumentRequested =>
        /\ ~lastUn.out.raised
        /\ lastUn.out.value => lastUn.adapter \in {"ok", "no_op_attr"}
        /\ ~lastUn.out.value => lastUn.after = lastUn.before

\* C20: every record LogsManager.log emits, on the OpenTelemetry logger path
\* and on the Python-logger fallback path, carries the mask "****" for every
\* attribute whose key contains a configured sensitive field.
C20_EmittedRecordsMasked ==
    logOut.done =>
        \A i \in DOMAIN logOut.records :
            \A k \in DOMAIN logOut.records[i].attrs :
                IsSensitive(k, logIn.fields) => logOut.records[i].attrs[k] = "****"

\* the target defeats the construction or the installation of a wrapper
SetupDefeated ==
    \/ setupIn.entry # "instrument_class" /\ ~setupIn.hasName
    \/ /\ setupIn.entry = "instrument_class"
       /\ ~setupIn.marked
       /\ \/ setupIn.kind = "frozen"
          \/ setupIn.kind = "guarded" /\ PublicMethods(setupIn) # {}

\* C18: when wrapper construction fails during setup (the target has no
\* __name__, or assigning onto the class fails), Collector.instrument_function
\* and instrument_class do not raise and hand back the original, unwrapped,
\* still usable target.
C18_SetupFailureReturnsOriginal ==
    (setupOut.done /\ SetupDefeated) =>
        /\ setupOut.res.exc = NoExc
        /\ setupOut.res.val = "original"
        /\ setupOut.res.usable
        /\ setupOut.res.replaced = {}

\* C21: a sampled-in LogsManager.log call emits exactly one record and
\* raises nothing: to the OpenTelemetry logger alone when it exists and its
\* emit succeeds, through the Python logger when there is no OpenTelemetry
\* logger or its emit raises.
C21_ExactlyOneEmission ==
    (logOut.done /\ logIn.sampled) =>
        /\ logOut.exc = NoExc
        /\ Len(logOut.records) = 1
        /\ logOut.records[1].path = (IF logIn.otel = "ok" THEN "otel" ELSE "python")

C21_Witness ==
    /\ logOut.done /\ logIn.sampled /\ logIn.otel = "emit_raises"
    /\ Len(logOut.records) = 1 /\ logOut.records[1].path = "python"

\* C22: in a traced call of a method wrapped by instrument_class whose
\* original returned, each telemetry step of the success path fails alone:
\* a raising calls-counter increment leaves the duration histogram recorded
\* and the success log emitted, a raising histogram leaves the log emitted,
\* a raising log leaves both metrics recorded, and the caller gets the
\* method's result in every case.
C22_SubOperationsIsolated ==
    (/\ TracedMethodCall
     /\ lastMCall.beh.exc = NoExc
     /\ lastMCall.faults \in {{"counter"}, {"histogram"}, {"log"}}) =>
        LET ev == lastMCall.run.ev
            F  == lastMCall.faults
        IN  /\ SameOutcome(lastMCall.run, lastMCall.beh)
            /\ "counter" \in F =>
                   CountOk(ev, "histogram", "success") = 1 /\ CountOk(ev, "log", "info") = 1
            /\ "histogram" \in F =>
                   CountOk(ev, "counter", "success") = 1 /\ CountOk(ev, "log", "info") = 1
            /\ "log" \in F =>
                   CountOk(ev, "counter", "success") = 1 /\ CountOk(ev, "histogram", "success") = 1

\* the invocations the last call made through exactly one wrapper that took
\* its telemetry path: the events of the invocation, and whether the wrapper
\* had a tracer to open a span with
SingleInvocations ==
    (IF DirectWrapperCalled /\ FullTelemetry(lastCall.tele, lastCall.faults)
     THEN {[ev |-> lastCall.run.ev, tracer |-> TRUE]} ELSE {})
    \cup
    (IF /\ TracedMethodCall /\ Len(lastMCall.layers) = 1
        /\ ~NoSink(lastMCall.tele, lastMCall.faults)
     THEN {[ev |-> lastMCall.run.ev, tracer |-> TRUE]} ELSE {})
    \cup
    (IF SifyWrapperCalled /\ Len(lastSCall.layers) = 1
     THEN {[ev |-> lastSCall.run.ev,
            tracer |-> SifyTracer(sifyTele, lastSCall.faults) # "none"]} ELSE {})
    \cup
    (IF DirectlyDecoratedCalled /\ CalledKind = "trace" /\ decTele = "S"
     THEN {[ev |-> lastDCall.run.ev, tracer |-> TRUE]} ELSE {})

EmissionOps == {"counter", "histogram", "log", "pylog"}

\* the position of the original callable among the events
CallAt(ev) == CHOOSE i \in DOMAIN ev : ev[i].op = "call"

\* C23: in an invocation through one wrapper (instrument_function wrapper,
\* instrument_class method wrapper, trace decorator, SifySDKInstrumentor
\* wrapper) in which the original callable ran, whether it returned or
\* raised: the span is opened before the callable starts and closed after it
\* ended, and every metric and log of the invocation is emitted after the
\* callable ended and before the wrapper hands control back.
C23_SpanCallableEmissionOrder ==
    \A inv \in SingleInvocations :
        CountEv(inv.ev, "call") = 1 =>
            LET ev == inv.ev
                c  == CallAt(ev)
            IN  /\ \A i \in DOMAIN ev :
                       /\ ev[i].op = "span_start" => i < c
                       /\ ev[i].op = "span_end" => i > c
                       /\ ev[i].op \in EmissionOps => i > c
                /\ inv.tracer => CountEv(ev, "span_start") = 1 /\ CountEv(ev, "span_end") = 1

\* a class-wrapper invocation whose method raised: span, call, span closed,
\* then the error counter and the error log
C23_Witness ==
    /\ TracedMethodCall /\ Len(lastMCall.layers) = 1
    /\ lastMCall.beh.exc = "ValueError" /\ lastMCall.faults = {}
    /\ LET ev == lastMCall.run.ev
       IN  /\ CountEv(ev, "call") = 1 /\ CountEv(ev, "span_start") = 1
           /\ CountEv(ev, "span_end") = 1
           /\ CountOk(ev, "counter", "error") = 1 /\ CountOk(ev, "log", "error") = 1

\* C25: an async method wrapped by SifySDKInstrumentor that is cancelled at
\* its await point (asyncio.CancelledError) or times out goes through the
\* error path: the exception is recorded on the span and the span status set
\* to error, the calls and errors counters, the histogram and the error log
\* are emitted, and the same exception is re-raised (stated for one wrapper
\* and a sink all of whose operations work).
C25_CancellationOnErrorPath ==
    (/\ SifyWrapperCalled
     /\ Len(lastSCall.layers) = 1
     /\ IsCoroutine(lastSCall.m)
     /\ sifyTele = "S"
     /\ lastSCall.faults = {}
     /\ lastSCall.beh.exc \in AsyncExceptions) =>
        LET ev == lastSCall.run.ev
        IN  /\ lastSCall.run.exc = lastSCall.beh.exc
            /\ CountEv(ev, "record_exception") = 1
            /\ CountOk(ev, "set_status", "ERROR") = 1
            /\ CountKind(ev, "counter", "calls", "error") = 1
            /\ CountKind(ev, "counter", "errors", "error") = 1
            /\ CountKind(ev, "histogram", "duration_ms", "error") = 1
            /\ CountLogs(ev, "error") = 1

\* the metrics and logs task t emitted
EmissionsOf(t) == { e \in asyncLog : e.task = t /\ e.ev.op \in EmissionOps }

EmittedBy(t, op, kind, tag) ==
    Cardinality({ e \in asyncLog :
                    /\ e.task = t /\ e.ev.op = op
                    /\ e.ev.name[Len(e.ev.name)] = kind /\ e.ev.tag = tag })

LoggedBy(t, tag) ==
    Cardinality({ e \in asyncLog :
                    e.task = t /\ e.ev.op \in {"log", "pylog"} /\ e.ev.tag = tag })

\* a completed invocation emitted its calls counter, its histogram and its
\* log exactly once, tagged with its own outcome and carrying its own
\* duration, the errors counter once iff it failed, and nothing tagged with
\* the opposite outcome
OwnEmissions(t) ==
    asyncTasks[t].pc = "done" =>
        LET ok    == asyncTasks[t].beh.exc = NoExc
            tag   == IF ok THEN "success" ELSE "error"
            other == IF ok THEN "error" ELSE "success"
            sink  == IF asyncTele = "S" THEN 1 ELSE 0
        IN  /\ asyncTasks[t].exc = asyncTasks[t].beh.exc
            /\ asyncTasks[t].val = asyncTasks[t].beh.val
            /\ EmittedBy(t, "counter", "calls", tag) = sink
            /\ EmittedBy(t, "histogram", "duration_ms", tag) = sink
            /\ EmittedBy(t, "counter", "errors", tag) = (IF ok THEN 0 ELSE sink)
            /\ LoggedBy(t, tag) = 1
            /\ EmittedBy(t, "counter", "calls", other) = 0
            /\ EmittedBy(t, "counter", "errors", other) = 0
            /\ EmittedBy(t, "histogram", "duration_ms", other) = 0
            /\ LoggedBy(t, other) = 0
            /\ \A e \in EmissionsOf(t) :
                   e.elapsed = asyncTasks[t].finish - asyncTasks[t].start

\* C24: with several invocations of the async wrapper in flight and
\* interleaved at the inner await, every suspended invocation completes once
\* its awaited coroutine can end, whatever the other invocations are doing,
\* and every completed invocation has emitted its metrics and its log exactly
\* once with its own success flag and its own duration.
C24_ConcurrentInvocationsIndependent ==
    /\ [](\A t \in Tasks : OwnEmissions(t))
    /\ \A t \in Tasks : (asyncTasks[t].pc = "awaiting") ~> (asyncTasks[t].pc = "done")

\* two invocations that overlapped, one failed and one succeeded, started at
\* different times
C24_Witness ==
    /\ asyncTele = "S"
    /\ asyncTasks[1].pc = "done" /\ asyncTasks[2].pc = "done"
    /\ asyncTasks[1].beh.exc = "ValueError" /\ asyncTasks[2].beh.exc = NoExc
    /\ asyncTasks[1].start < asyncTasks[2].start
    /\ asyncTasks[2].start < asyncTasks[1].finish
    /\ asyncTasks[1].finish <= asyncTasks[2].finish
    /\ EmittedBy(1, "counter", "errors", "error") = 1
    /\ EmittedBy(2, "counter", "calls", "success") = 1

\* C26: the include / exclude rules apply to whichever layer the context
\* names: with tracing enabled and rules configured for that layer (business,
\* framework, library or database), a method matching one of the layer's
\* exclude patterns is not traced, and with a non-empty include list a method
\* matching none of its patterns is not traced.
C26_RulesApplyToEveryLayer ==
    (/\ ruleOut.done
     /\ EnableTraces(ruleIn.telemetry)
     /\ RulesTruthy(ruleIn.telemetry)
     /\ ruleIn.ctx.layer \in Layers
     /\ LayerRulesTruthy(ruleIn.telemetry, ruleIn.ctx.layer)) =>
        LET lr == ruleIn.telemetry.lr
            m  == ruleIn.ctx.method
        IN  /\ (\E p \in exclude_methods(lr) : fnmatch(m, p)) => ~ruleOut.traced
            /\ (/\ include_methods(lr) # {}
                /\ ~\E p \in include_methods(lr) : fnmatch(m, p)) => ~ruleOut.traced

\* the last method call went through a wrapper of instrument_class with a
\* sink, and the rule evaluator decided against tracing it
UntracedMethodCall ==
    /\ lastMCall # NoMCall
    /\ lastMCall.layers # <<>>
    /\ ~NoSink(lastMCall.tele, lastMCall.faults)
    /\ ~RuleLookupRaises(lastMCall.cfg, [layer |-> "business", method |-> lastMCall.m])
    /\ ~should_trace(lastMCall.cfg, [layer |-> "business", method |-> lastMCall.m])

\* C27: when the rule evaluator decides that a call is not to be traced
\* (tracing disabled, or the method excluded / not included by the business
\* rules), the method wrapped by instrument_class invokes the original exactly
\* once and returns or raises exactly what it did; no span is started and no
\* counter, histogram or log is emitted for the call.
C27_UntracedCallIsBare ==
    UntracedMethodCall =>
        /\ SameOutcome(lastMCall.run, lastMCall.beh)
        /\ CountEv(lastMCall.run.ev, "call") = 1
        /\ TelemetryEvents(lastMCall.run.ev) = {}

\* tracing enabled, get_user excluded by the business rule "get_*"
C27_Witness ==
    /\ UntracedMethodCall
    /\ lastMCall.cfg.enable_traces
    /\ lastMCall.cfg.lr.exc = {"get_star"}
    /\ lastMCall.m = "get_user"
    /\ lastMCall.faults = {}
    /\ lastMCall.beh.exc = "KeyError"
    /\ lastMCall.run.exc = "KeyError"
    /\ Len(lastMCall.run.ev) = 1

\* C28: a trace-rule lookup error is never propagated: when evaluating the
\* configured rules fails for a call (the rule set, or the layer's entry, is
\* not a mapping), the method wrapped by instrument_class still invokes the
\* original exactly once and the caller sees only the original's result or
\* exception.
C28_RuleLookupErrorContained ==
    (/\ lastMCall # NoMCall
     /\ lastMCall.layers # <<>>
     /\ ~NoSink(lastMCall.tele, lastMCall.faults)
     /\ lastMCall.faults = {}
     /\ RuleLookupRaises(lastMCall.cfg, [layer |-> "business", method |-> lastMCall.m])) =>
        /\ SameOutcome(lastMCall.run, lastMCall.beh)
        /\ CountEv(lastMCall.run.ev, "call") = 1

\* C29: sink resolution in a method wrapped by instrument_class is
\* instance-first with lazy binding: an instance that already carries a sink
\* is served by that sink and keeps it; an instance that carries none is
\* served by the sink given to instrument_class, which the call attaches to it.
C29_SinkInstanceFirst ==
    (lastMCall # NoMCall /\ lastMCall.layers # <<>>) =>
        LET given == lastMCall.layers[Len(lastMCall.layers)]
            first == IF lastMCall.had = "absent" THEN given ELSE lastMCall.had
        IN  /\ lastMCall.tele = first
            /\ instTele[lastMCall.inst] = first

C31_RecordingNeverRaises ==
    lastGet.via \in RecordingMethods =>
        /\ lastGet.run.exc = NoExc
        /\ lastGet.run.val = "None"

\* record_histogram on a name whose real instrument raises in record, and
\* increment_counter-style calls that met a failing creation, both returned
C31_Witness ==
    /\ lastGet.via = "record_histogram"
    /\ lastGet.result.kind = "real"
    /\ lastGet.fails
    /\ Len(lastGet.run.ev) = 1
    /\ lastGet.run.ev[1].exc = "TelemetryError"
    /\ lastGet.run.exc = NoExc

\* C32: for every class not itself passed to instrument_class before, a
\* subclass of an instrumented class included, instrument_class replaces
\* every public plain-function member of the class, the ones it defines
\* itself included, by a telemetry wrapper set on that class (observed once
\* no instrument_class request is in progress).
C32_FirstRequestWrapsEveryPublicMember ==
    \A t \in HThreads :
        (/\ \A u \in HThreads : hThreads[u].pc \in {"idle", "done"}
         /\ hThreads[t].pc = "done"
         /\ hThreads[t].first) =>
            \A m \in HMethods :
                (~IsPrivate(m) /\ Lookup(hDict, hThreads[t].cls, m) # NoFunction) =>
                    hDict[hThreads[t].cls][m].layers >= 1

\* C33: when the threads call instrument_class on one and the same class,
\* whatever the interleaving of the marker check, the marker write and the
\* method replacements, every public method wraps its original exactly once:
\* no method call opens two spans.
C33_ConcurrentInstrumentWrapsOnce ==
    Cardinality(hPassed) = 1 =>
        /\ lastHCall.spans <= 1
        /\ \A c \in hPassed, m \in HMethods : Lookup(hDict, c, m).layers <= 1

\* C34: instrument_app is idempotent per application: a request for an app
\* already recorded as instrumented makes no call on the framework adapter;
\* instrument_app never raises, returns false when detection or the adapter
\* fails, and records the app only on success.
C34_InstrumentAppIdempotent ==
    lastUn.op = "framework.instrument_app" =>
        /\ lastUn.before # "none" => lastUn.calls = <<>>
        /\ ~lastUn.out.raised
        /\ lastUn.adapter \in {"import_fails", "ctor_fails", "op_raises"} =>
                ~lastUn.out.value
        /\ lastUn.out.value => lastUn.after \in Frameworks
        /\ ~lastUn.out.value => lastUn.after = lastUn.before

\* C35: per library, LibraryInstrumentor and DatabaseInstrumentor follow the
\* status machine absent -> instrumented -> uninstrumented -> instrumented:
\* a request for a library recorded as instrumented returns true without any
\* call on the adapter; the status becomes instrumented only after a call of
\* the adapter's instrument() that did not raise; after an uninstrument the
\* next instrument request calls the adapter again.
C35_AdapterStatusMachine ==
    /\ lastUn.op \in {"library.instrument", "database.instrument"} =>
          /\ lastUn.before = "instrumented" =>
                /\ lastUn.calls = <<>>
                /\ lastUn.out = Returned(TRUE)
                /\ lastUn.after = "instrumented"
          /\ (lastUn.before # "instrumented" /\ lastUn.after = "instrumented") =>
                /\ lastUn.calls # <<>>
                /\ lastUn.calls[Len(lastUn.calls)] = "ok"
          /\ (/\ lastUn.before = "uninstrumented"
              /\ lastUn.adapter \notin {"import_fails", "ctor_fails"}) =>
                lastUn.calls # <<>>
          /\ lastUn.after \in {lastUn.before, "instrumented"}
    /\ lastUn.op \in {"library.uninstrument", "database.uninstrument"} =>
          lastUn.after \in {lastUn.before, "uninstrumented"}

\* a library instrumented again after it was uninstrumented: the adapter was
\* called, and the status is instrumented again
C35_Witness ==
    /\ lastUn.op = "library.instrument"
    /\ lastUn.before = "uninstrumented"
    /\ lastUn.calls = <<"ok">>
    /\ lastUn.after = "instrumented"
    /\ libStatus[lastUn.target] = "instrumented"
    /\ \E l \in Databases : dbStatus[l] = "instrumented"

\* C36: LibraryInstrumentor.instrument(libs) never raises and returns a
\* result for every requested library, whatever the adapters do: an unknown
\* library, a failing import or a raising adapter instrument(), also for the
\* specially handled "logging" library, yields false for that library only,
\* and the remaining libraries of the list are still processed.
C36_InstrumentListNeverRaises ==
    lastUn.op = "library.instrument_many" =>
        /\ ~lastUn.out.raised
        /\ \A k \in DOMAIN lastUn.libs :
              \E b \in BOOLEAN : <<lastUn.libs[k], b>> \in lastUn.results

\* C37: an exception raised by the body of `with start_span(...)` reaches
\* the caller as the same exception, with a real tracer and with the dummy
\* fallback alike, and the generator yields exactly one span per use.
C37_BodyExceptionPropagatesUnchanged ==
    \A u \in spanLog :
        /\ u.body # NoExc => u.out = u.body
        /\ Len(u.yielded) = 1

\* C38: one call through a wrapper made by instrument_function with a sink
\* increments the calls counter exactly once, tagged success exactly when the
\* function returned and error exactly when it raised, also when the
\* histogram record or the log emission that follows fails.
C38_CallCountedOnce ==
    (DirectWrapperCalled /\ lastCall.tele = "S"
        /\ lastCall.faults \subseteq {"histogram", "log"}) =>
        LET ok  == CountOk(lastCall.run.ev, "counter", "success")
            err == CountOk(lastCall.run.ev, "counter", "error")
        IN  /\ ok + err = 1
            /\ ok = 1 <=> lastCall.beh.exc = NoExc

\* C39: LogsManager.log leaves the mapping its caller passed unchanged: the
\* context fields are added to the emitted record only.
C39_CallerMappingUnchanged ==
    logOut.done => logOut.caller = logIn.attrs

====
